---- MODULE Spec2Model ----
(***************************************************************************)
(* polar2grid: the viirs2awips glue script (run_glue, _process_data_sets,  *)
(* process_data_sets), the DR-RTV swath front end (swathbuckler and its    *)
(* helpers) and the colormap parser of add_colormap.py, as state machines. *)
(*                                                                         *)
(*   Spec          run_glue dispatching the groups M, I, DNB to workers    *)
(*                 that run process_data_sets stage by stage               *)
(*   SpecGroup     the grouping of run_glue's input paths                  *)
(*   SpecManifest  _var_manifest and _layer_at_pressure                    *)
(*   SpecSwath     swathbuckler over a list of input files                 *)
(*   SpecNav       Frontend.sort_files_by_nav_uid                          *)
(*   SpecWriter    _write_array_to_fbf on arrays of any rank and type      *)
(*   SpecVar       _swath_from_var on the values of a variable             *)
(*   SpecGobble    swathbuckler._gobble on a concatenated swath            *)
(*   SpecColormap  parse_color_table_file and create_colortable            *)
(***************************************************************************)
EXTENDS Integers, Sequences, FiniteSets, TLC

VARIABLES
    \* ---- viirs2awips.py ----
    multiprocess,       \* run_glue's keyword argument
    group_files,        \* M_files, I_files, DNB_files (sorted lists)
    not_used,           \* all_provided - all_used
    pc,                 \* where run_glue is: [phase, g]
    exit_status,        \* run_glue's local exit_status
    proc,               \* pM, pI, pDNB: "None", "created" (start failed), "started"
    joined,             \* the groups run_glue has joined
    wpc,                \* where each group's _process_data_sets is
    status_to_return,   \* process_data_sets' local, per group
    exitcode,           \* <<>> or <<code>>: the code of the worker's sys.exit
    inject,             \* the outcome each group's pipeline was given, "none" if not yet run
    seq_result,         \* <<>> or <<status>>: the final status of an earlier sequential run
    filepaths,          \* run_glue's argument while the groups are made; <<>> once
                        \* they are made, as nothing after line 221 reads it
    \* ---- drrtv/swath.py: _var_manifest and _layer_at_pressure ----
    plev,               \* the pressure profile given
    p_req,              \* the pressure level asked for
    manifest,           \* dict(_var_manifest(...)): name -> manifest_entry
    dex,                \* <<>> or <<p, index>>: the index _layer_at_pressure chose for p
    \* ---- drrtv/swath.py: swathbuckler ----
    spc,                \* where swathbuckler is
    h5_pathnames,       \* the input files, in order
    h5s,                \* the files opened, in order
    nfo,                \* the metadata under construction
    todo,               \* the manifest names not extracted
    written,            \* the flat binary files written
    contents,           \* file name -> the rows the file holds, each <<input file, row>>
    swaths,             \* file name -> the rows of the swath handed to the writer
    scalar_index,       \* what the numpy in use makes of a boolean scalar index
    sresult,            \* "running", "returned" or the exception raised
    fe_status,          \* <<>> or <<status>>: what process_data_sets makes of the result
    \* ---- drrtv/swath.py: _write_array_to_fbf and _swath_from_var ----
    wa,                 \* the writer's arguments: [name, shape, dtype, masked]
    wr,                 \* <<>> or <<[exc, fn, files]>>: what the writer returned and wrote
    sv,                 \* the HDF5 variable given: [data, missing_value]
    sr,                 \* <<>> or <<[data, mask]>>: the masked array returned
    \* ---- drrtv/swath.py: swathbuckler._gobble from the concatenated swath on ----
    ga,                 \* its arguments and its swath: [name, swath, explode, filter]
    gr,                 \* <<>> or <<[exc, fn, array]>>: what it returned and handed to the writer
    \* ---- drrtv/swath.py: Frontend.sort_files_by_nav_uid ----
    nav_filepaths,      \* the paths given
    nav_i,              \* the position of the loop in them
    ret,                \* nav_set_uid -> list of paths
    nav_result,         \* "idle", "running", "returned" or the exception raised
    \* ---- add_colormap.py: parse_color_table_file and create_colortable ----
    ct_file,            \* the lines of the colormap file
    ct_i,               \* the line the loop is at
    prev_idx,           \* <<>> for None, else <<index>>
    ct,                 \* the entries made so far, each <<index, R, G, B, A>>
    ct_result,          \* "idle", "running", "returned" or the exception raised
    color_table         \* the gdal.ColorTable: <<>> or <<index -> <<R, G, B, A>>>>

glue_vars == <<multiprocess, group_files, not_used, pc, exit_status, proc, joined,
               wpc, status_to_return, exitcode, inject, seq_result>>
manifest_vars == <<plev, p_req, manifest, dex>>
swath_vars == <<spc, h5_pathnames, h5s, nfo, todo, written, contents, swaths,
               scalar_index, sresult, fe_status>>
array_vars == <<wa, wr, sv, sr, ga, gr>>
nav_vars == <<nav_filepaths, nav_i, ret, nav_result>>
ct_vars == <<ct_file, ct_i, prev_idx, ct, ct_result, color_table>>
vars == <<glue_vars, filepaths, manifest_vars, swath_vars, array_vars, nav_vars, ct_vars>>

\* what the steps of one part of the program leave alone
not_glue == <<filepaths, manifest_vars, swath_vars, array_vars, nav_vars, ct_vars>>
not_manifest == <<glue_vars, filepaths, swath_vars, array_vars, nav_vars, ct_vars>>
not_swath == <<glue_vars, filepaths, plev, p_req, dex, array_vars, nav_vars, ct_vars>>
not_array == <<glue_vars, filepaths, manifest_vars, swath_vars, nav_vars, ct_vars>>
not_nav == <<glue_vars, filepaths, manifest_vars, swath_vars, array_vars, ct_vars>>
not_ct == <<glue_vars, filepaths, manifest_vars, swath_vars, array_vars, nav_vars>>

-----------------------------------------------------------------------------
(* Bounds *)

MaxFiles == 3       \* longest list of input paths given to run_glue
MaxLevels == 4      \* longest pressure profile
MaxH5 == 2          \* longest list of input files given to swathbuckler

-----------------------------------------------------------------------------
(* Helpers *)

RECURSIVE BitOr(_, _)
\* a | b on non-negative integers
BitOr(a, b) ==
    IF a = 0 THEN b
    ELSE IF b = 0 THEN a
    ELSE (IF (a % 2 = 1) \/ (b % 2 = 1) THEN 1 ELSE 0) + 2 * BitOr(a \div 2, b \div 2)

\* an assignment of the later status in place of `a or b`
LogicalOrLast(a, b) == b

\* Python's `a or b` on integers
LogicalOr(a, b) == IF a # 0 THEN a ELSE b

Min(S) == CHOOSE x \in S : \A y \in S : x <= y

RECURSIVE sorted(_)
\* sorted(set): the elements of a finite set of integers in ascending order
sorted(S) == IF S = {} THEN <<>> ELSE <<Min(S)>> \o sorted(S \ {Min(S)})

Range(s) == {s[i] : i \in 1..Len(s)}

BoundedSeq(S, n) == UNION {[1..k -> S] : k \in 0..n}

-----------------------------------------------------------------------------
(* polar2grid.core.constants: the status flags *)

STATUS_SUCCESS == 0
STATUS_FRONTEND_FAIL == 1
STATUS_BACKEND_FAIL == 2
STATUS_REMAP_FAIL == 12
STATUS_GDETER_FAIL == 16
STATUS_UNKNOWN_FAIL == -1

\* the exit status the operating system keeps of sys.exit(stat): its low 8 bits
ExitCode(stat) == stat % 256

-----------------------------------------------------------------------------
(* run_glue: the input paths and their grouping *)

\* Paths as given on the command line.  Path 6 is another spelling of path 3
\* (os.path.abspath maps both to the same absolute path).
RawPaths == 1..6

abspath(x) == IF x = 6 THEN 3 ELSE x

\* os.path.split(x)[1] of each absolute path starts with ...
Basename == <<"SVDNB_a", "SVI01_a", "SVM01_a", "SVM02_a", "GMTCO_a">>

startswith(x, prefix) ==
    CASE prefix = "SVM" -> Basename[x] \in {"SVM01_a", "SVM02_a"}
      [] prefix = "SVI" -> Basename[x] \in {"SVI01_a"}
      [] prefix = "SVDNB" -> Basename[x] \in {"SVDNB_a"}

Groups == {"M", "I", "DNB"}
Prefix(g) == CASE g = "M" -> "SVM" [] g = "I" -> "SVI" [] g = "DNB" -> "SVDNB"

\* filepaths = [abspath(x) for x in sorted(filepaths)]
AbsList(fps) ==
    LET srt == SortSeq(fps, LAMBDA a, b : a < b)
    IN  [i \in 1..Len(fps) |-> abspath(srt[i])]

\* set(filepaths), after line 215
AbsPaths(fps) == Range(AbsList(fps))

\* a grouping without sorted(set(...)): the list comprehension alone
GroupFilesAsListed(fps, g) ==
    SelectSeq(AbsList(fps), LAMBDA x : startswith(x, Prefix(g)))

\* sorted(set([x for x in filepaths if basename(x).startswith(prefix)]))
GroupFiles(fps, g) ==
    sorted(Range(SelectSeq(AbsList(fps), LAMBDA x : startswith(x, Prefix(g)))))

NotUsed(fps) ==
    AbsPaths(fps) \ UNION {Range(GroupFiles(fps, g)) : g \in Groups}

-----------------------------------------------------------------------------
(* process_data_sets: the outcomes a run of the pipeline can be given *)

StageFailures == {"frontend_fail", "no_bands", "gdeter_fail", "remap_fail", "backend_fail"}
StandardFaults == {"MemoryError", "OSError", "StandardError"}
\* an exception of a class derived from Exception and not from StandardError
OtherFaults == {"Exception"}
Faults == StandardFaults \cup {"KeyboardInterrupt"} \cup OtherFaults
Outcomes == {"ok"} \cup StageFailures \cup Faults

\* A StandardError raised inside a stage's try block is that stage's failure;
\* it reaches the wrapper only from the statements outside the try blocks
\* (the constructors, len(bands) after the extraction, the Workspace and the
\* bookkeeping of the backend loop).  A KeyboardInterrupt and an exception
\* that is no StandardError pass every try block.
FaultPoints(f) ==
    IF f \in StandardFaults THEN {"init", "frontend", "backend"}
    ELSE {"init", "frontend", "gdeter", "remap", "backend"}

\* the outcomes stage st can end the pipeline with
EndsAt(st) ==
    {o \in StageFailures :
        \/ st = "frontend" /\ o \in {"frontend_fail", "no_bands"}
        \/ st = "gdeter" /\ o = "gdeter_fail"
        \/ st = "remap" /\ o = "remap_fail"
        \/ st = "backend" /\ o = "backend_fail"}
    \cup {f \in Faults : st \in FaultPoints(f)}
    \cup (IF st = "backend" THEN {"ok"} ELSE {})

\* the outcomes with which the pipeline passes stage st and goes on
Passes(st) ==
    CASE st = "init" -> Outcomes
      [] st = "frontend" -> Outcomes \ {"frontend_fail", "no_bands"}
      [] st = "gdeter" -> Outcomes \ {"frontend_fail", "no_bands", "gdeter_fail"}
      [] st = "remap" -> {"ok", "backend_fail"} \cup Faults
      [] st = "backend" -> {}

\* the outcome of a group is free the first time its pipeline runs and the
\* same on a later run over the same input
Allowed(g, S) == IF inject[g] = "none" THEN S ELSE S \cap {inject[g]}

\* a pipeline that goes from the extraction straight to the remapping
NextStageSkipsGrid(st) ==
    CASE st = "init" -> "frontend"
      [] st = "frontend" -> "remap"
      [] st = "gdeter" -> "remap"
      [] st = "remap" -> "backend"

NextStage(st) ==
    CASE st = "init" -> "frontend"
      [] st = "frontend" -> "gdeter"
      [] st = "gdeter" -> "remap"
      [] st = "remap" -> "backend"

-----------------------------------------------------------------------------
(* _process_data_sets: the wrapper around process_data_sets *)

\* sys.exit(-1), after any of the except clauses of the wrapper
FaultExit == -1

\* the wrapper's except clauses: MemoryError, OSError, StandardError, KeyboardInterrupt
Caught == {"MemoryError", "OSError", "StandardError", "KeyboardInterrupt"}

\* sys.exit(code) in the code running group g with outcome o.  In a worker
\* process it ends the worker with that exit code.  In sequential mode the
\* wrapper runs inside run_glue: SystemExit is no StandardError, no except
\* clause of the wrapper or of run_glue catches it, and it ends run_glue.
SysExit(g, code, o) ==
    /\ wpc' = [wpc EXCEPT ![g] = "exited"]
    /\ exitcode' = [exitcode EXCEPT ![g] = <<ExitCode(code)>>]
    /\ inject' = [inject EXCEPT ![g] = o]
    /\ pc' = IF multiprocess THEN pc ELSE [phase |-> "SystemExit", g |-> g]

\* process_data_sets returns stat: stat = process_data_sets(...); sys.exit(stat)
Return(g, stat, o) ==
    /\ status_to_return' = [status_to_return EXCEPT ![g] = stat]
    /\ SysExit(g, stat, o)

\* process_data_sets raises f: the wrapper's except clause catches it, logs
\* it and falls through to sys.exit(-1)
Raise(g, f) ==
    /\ f \in Caught
    /\ UNCHANGED status_to_return
    /\ SysExit(g, FaultExit, f)

\* the exit code multiprocessing gives a worker whose target raised
UncaughtExit == 1

\* process_data_sets raises f and no except clause of the wrapper names it:
\* f leaves _process_data_sets without a sys.exit.  In a worker process
\* multiprocessing prints the traceback and ends the worker with exit code 1.
\* In sequential mode f leaves run_glue too, whose except clause names
\* StandardError alone.
Escape(g, f) ==
    /\ f \notin Caught
    /\ wpc' = [wpc EXCEPT ![g] = "exited"]
    /\ exitcode' = IF multiprocess THEN [exitcode EXCEPT ![g] = <<UncaughtExit>>] ELSE exitcode
    /\ inject' = [inject EXCEPT ![g] = f]
    /\ pc' = IF multiprocess THEN pc ELSE [phase |-> "Exception", g |-> g]
    /\ UNCHANGED status_to_return

\* the stage is passed
Pass(g, st) ==
    /\ Allowed(g, Passes(st)) # {}
    /\ wpc' = [wpc EXCEPT ![g] = NextStage(st)]
    /\ UNCHANGED <<exitcode, inject, pc>>

RaiseAt(g, st) == \E f \in Allowed(g, Faults \cap EndsAt(st)) : Raise(g, f) \/ Escape(g, f)

-----------------------------------------------------------------------------
(* process_data_sets, stage by stage *)

\* status_to_return = STATUS_SUCCESS; Frontend(); Backend(...)
Construct(g) ==
    /\ wpc[g] = "init"
    /\ \/ /\ Pass(g, "init")
          /\ status_to_return' = [status_to_return EXCEPT ![g] = STATUS_SUCCESS]
       \/ RaiseAt(g, "init")
    /\ UNCHANGED <<multiprocess, group_files, not_used, exit_status, proc, joined, seq_result>>

\* frontend.make_swaths and the reading of its meta data; len(bands) == 0
ExtractSwaths(g) ==
    /\ wpc[g] = "frontend"
    /\ \/ Pass(g, "frontend") /\ UNCHANGED status_to_return
       \/ /\ "frontend_fail" \in Allowed(g, EndsAt("frontend"))
          /\ Return(g, BitOr(status_to_return[g], STATUS_FRONTEND_FAIL), "frontend_fail")
       \/ /\ "no_bands" \in Allowed(g, EndsAt("frontend"))
          /\ Return(g, LogicalOr(status_to_return[g], STATUS_UNKNOWN_FAIL), "no_bands")
       \/ RaiseAt(g, "frontend")
    /\ UNCHANGED <<multiprocess, group_files, not_used, exit_status, proc, joined, seq_result>>

\* create_grid_jobs
DetermineGrid(g) ==
    /\ wpc[g] = "gdeter"
    /\ \/ Pass(g, "gdeter") /\ UNCHANGED status_to_return
       \/ /\ "gdeter_fail" \in Allowed(g, EndsAt("gdeter"))
          /\ Return(g, BitOr(status_to_return[g], STATUS_GDETER_FAIL), "gdeter_fail")
       \/ RaiseAt(g, "gdeter")
    /\ UNCHANGED <<multiprocess, group_files, not_used, exit_status, proc, joined, seq_result>>

\* remap.remap_bands
Remap(g) ==
    /\ wpc[g] = "remap"
    /\ \/ Pass(g, "remap") /\ UNCHANGED status_to_return
       \/ /\ "remap_fail" \in Allowed(g, EndsAt("remap"))
          /\ Return(g, BitOr(status_to_return[g], STATUS_REMAP_FAIL), "remap_fail")
       \/ RaiseAt(g, "remap")
    /\ UNCHANGED <<multiprocess, group_files, not_used, exit_status, proc, joined, seq_result>>

\* the backend loop: every job of every grid; len(remapped_jobs) == 0
Backend(g) ==
    /\ wpc[g] = "backend"
    /\ \/ /\ "backend_fail" \in Allowed(g, EndsAt("backend"))
          /\ Return(g, BitOr(status_to_return[g], STATUS_BACKEND_FAIL), "backend_fail")
       \/ /\ "ok" \in Allowed(g, EndsAt("backend"))
          /\ Return(g, status_to_return[g], "ok")
       \/ RaiseAt(g, "backend")
    /\ UNCHANGED <<multiprocess, group_files, not_used, exit_status, proc, joined, seq_result>>

-----------------------------------------------------------------------------
(* run_glue *)

AfterDispatch(g) ==
    CASE g = "M" -> [phase |-> "dispatch", g |-> "I"]
      [] g = "I" -> [phase |-> "dispatch", g |-> "DNB"]
      [] g = "DNB" -> [phase |-> "join", g |-> "M"]

\* a join phase that stops waiting once a status is non-zero
AfterJoinStopOnFailure(g) ==
    IF exit_status # 0 \/ g = "DNB" THEN [phase |-> "returned", g |-> "-"]
    ELSE IF g = "M" THEN [phase |-> "join", g |-> "I"]
    ELSE [phase |-> "join", g |-> "DNB"]

AfterJoin(g) ==
    CASE g = "M" -> [phase |-> "join", g |-> "I"]
      [] g = "I" -> [phase |-> "join", g |-> "DNB"]
      [] g = "DNB" -> [phase |-> "returned", g |-> "-"]

\* a dispatch that takes no group for empty
IsEmptyNever(g) == FALSE

\* len(X_files) == 0
IsEmpty(g) == Len(group_files[g]) = 0

\* if len(X_files) != 0: try: ... except StandardError: ...
Dispatch(g) ==
    /\ pc = [phase |-> "dispatch", g |-> g]
    /\ \/ \* the group is empty
          /\ IsEmpty(g)
          /\ pc' = AfterDispatch(g)
          /\ UNCHANGED <<proc, wpc, exit_status>>
       \/ \* pX = Process(target=_process_data_sets, ...); pX.start()
          /\ ~IsEmpty(g) /\ multiprocess
          /\ proc' = [proc EXCEPT ![g] = "started"]
          /\ wpc' = [wpc EXCEPT ![g] = "init"]
          /\ pc' = AfterDispatch(g)
          /\ UNCHANGED exit_status
       \/ \* pX.start() raises a StandardError: pX is assigned and was never started
          /\ ~IsEmpty(g) /\ multiprocess
          /\ proc' = [proc EXCEPT ![g] = "created"]
          /\ exit_status' = LogicalOr(exit_status, Len(group_files[g]))
          /\ pc' = AfterDispatch(g)
          /\ UNCHANGED wpc
       \/ \* stat = _process_data_sets(X_files, **kwargs)
          /\ ~IsEmpty(g) /\ ~multiprocess
          /\ wpc' = [wpc EXCEPT ![g] = "init"]
          /\ pc' = [phase |-> "call", g |-> g]
          /\ UNCHANGED <<proc, exit_status>>
    /\ UNCHANGED <<multiprocess, group_files, not_used, joined, status_to_return,
                   exitcode, inject, seq_result>>

\* if pX is not None: pX.join(); stat = pX.exitcode; exit_status = exit_status or stat
Join(g) ==
    /\ pc = [phase |-> "join", g |-> g]
    /\ \/ /\ proc[g] = "None"
          /\ pc' = AfterJoin(g)
          /\ UNCHANGED <<exit_status, joined>>
       \/ \* Process.join asserts that the process was started
          /\ proc[g] = "created"
          /\ pc' = [phase |-> "AssertionError", g |-> g]
          /\ UNCHANGED <<exit_status, joined>>
       \/ /\ proc[g] = "started" /\ wpc[g] = "exited"
          /\ exit_status' = LogicalOr(exit_status, exitcode[g][1])
          /\ joined' = joined \cup {g}
          /\ pc' = AfterJoin(g)
    /\ UNCHANGED <<multiprocess, group_files, not_used, proc, wpc, status_to_return,
                   exitcode, inject, seq_result>>

Ended == pc.phase \in {"returned", "SystemExit", "AssertionError", "Exception"}

\* what the caller of run_glue gets: the value returned (main passes it to
\* sys.exit) or the code of the SystemExit that ended run_glue; nothing
\* when run_glue ended with another exception
FinalStatus ==
    CASE pc.phase = "returned" -> <<ExitCode(exit_status)>>
      [] pc.phase = "SystemExit" -> exitcode[pc.g]
      [] OTHER -> <<>>

-----------------------------------------------------------------------------
(* drrtv/swath.py: the guidebook *)

\* h5_var_name -> <<dkind, bkind, pressure layers (<<>> for None)>>
DEFAULT_LAYER_PRESSURES == <<500, 900>>

VAR_TABLE ==
    [v \in {"CAPE", "CO2_Amount", "COT", "CTP", "CTT", "CldEmis", "Cmask", "Dewpnt",
            "H2OMMR", "Lifted_Index", "O3VMR", "RelHum", "SurfPres", "TAir", "TSurf",
            "totH2O", "totO3"} |->
        CASE v = "CAPE" -> <<"DKIND_CAPE", "BKIND_CAPE", <<>>>>
          [] v = "CO2_Amount" -> <<"DKIND_CO2_AMOUNT", "BKIND_CO2_AMT", <<>>>>
          [] v = "COT" -> <<"DKIND_OPTICAL_THICKNESS", "BKIND_COT", <<>>>>
          [] v = "CTP" -> <<"DKIND_PRESSURE", "BKIND_CTP", <<>>>>
          [] v = "CTT" -> <<"DKIND_TEMPERATURE", "BKIND_CTT", <<>>>>
          [] v = "CldEmis" -> <<"DKIND_EMISSIVITY", "BKIND_CLD_EMIS", <<>>>>
          [] v = "Cmask" -> <<"DKIND_CATEGORY", "BKIND_CMASK", <<>>>>
          [] v = "Dewpnt" -> <<"DKIND_TEMPERATURE", "BKIND_DEWPT", DEFAULT_LAYER_PRESSURES>>
          [] v = "H2OMMR" -> <<"DKIND_MIXING_RATIO", "BKIND_H2O_MMR", DEFAULT_LAYER_PRESSURES>>
          [] v = "Lifted_Index" -> <<"DKIND_TEMPERATURE", "BKIND_LI", <<>>>>
          [] v = "O3VMR" -> <<"DKIND_MIXING_RATIO", "BKIND_O3_VMR", DEFAULT_LAYER_PRESSURES>>
          [] v = "RelHum" -> <<"DKIND_PERCENT", "BKIND_RH", DEFAULT_LAYER_PRESSURES>>
          [] v = "SurfPres" -> <<"DKIND_PRESSURE", "BKIND_SRF_P", <<>>>>
          [] v = "TAir" -> <<"DKIND_TEMPERATURE", "BKIND_AIR_T", DEFAULT_LAYER_PRESSURES>>
          [] v = "TSurf" -> <<"DKIND_TEMPERATURE", "BKIND_SRF_T", <<>>>>
          [] v = "totH2O" -> <<"DKIND_TOTAL_WATER", "BKIND_H2O_TOT", <<>>>>
          [] v = "totO3" -> <<"DKIND_TOTAL_OZONE", "BKIND_O3_TOT", <<>>>>]

\* the variables of a DR-RTV file that the guidebook leaves out
OtherH5Vars ==
    {"Channel_Index", "GDAS_RelHum", "GDAS_TAir", "H2Ohigh", "H2Olow", "H2Omid",
     "Latitude", "Longitude", "Plevs", "Qflag1", "Qflag2", "Qflag3", "SurfEmis",
     "SurfEmis_Wavenumbers"}

-----------------------------------------------------------------------------
(* _layer_at_pressure *)

Abs(x) == IF x < 0 THEN -x ELSE x

\* numpy's argmin of a non-empty sequence: the first index (from 0) of its least element
argmin(a) ==
    (CHOOSE i \in 1..Len(a) :
        /\ \A j \in 1..Len(a) : a[i] <= a[j]
        /\ \A j \in 1..(i - 1) : a[j] > a[i]) - 1

\* dex = (plev - p).argmin(): the absolute value forgotten
LayerIndexSigned(pl, p) == argmin([i \in 1..Len(pl) |-> pl[i] - p])

\* dex = np.abs(plev - p).argmin()
LayerIndex(pl, p) == argmin([i \in 1..Len(pl) |-> Abs(pl[i] - p)])

-----------------------------------------------------------------------------
(* _var_manifest *)

\* '%s_%dmb' % (h5_var_name, p)
LayerName(h5_var_name, p) == h5_var_name \o "_" \o ToString(p) \o "mb"

\* 'lvl%d' % int(p)
LayerBid(p) == "lvl" \o ToString(p)

\* manifest_entry(h5_var_name, tool, bkind, dkind, bid); the tool is <<>> for
\* None and <<plev, p>> for partial(_layer_at_pressure, plev=plev, p=p)
manifest_entry(h5_var_name, tool, bkind, dkind, bid) ==
    [h5_var_name |-> h5_var_name, tool |-> tool, bkind |-> bkind, dkind |-> dkind, bid |-> bid]

\* a generator that stops after the first pressure layer of a variable
VarManifestFirstLayer(sat, inst, pl) ==
    UNION {
        LET dk == VAR_TABLE[v][1]
            bk == VAR_TABLE[v][2]
            ps == VAR_TABLE[v][3]
        IN  IF Len(ps) > 0
            THEN {<<LayerName(v, ps[1]), manifest_entry(v, <<pl, ps[1]>>, bk, dk, LayerBid(ps[1]))>>}
            ELSE {<<v, manifest_entry(v, <<>>, bk, dk, "None")>>}
        : v \in DOMAIN VAR_TABLE}

\* the pairs (name, manifest_entry) the generator yields
VarManifest(sat, inst, pl) ==
    UNION {
        LET dk == VAR_TABLE[v][1]
            bk == VAR_TABLE[v][2]
            ps == VAR_TABLE[v][3]
        IN  IF Len(ps) > 0
            THEN {<<LayerName(v, ps[i]), manifest_entry(v, <<pl, ps[i]>>, bk, dk, LayerBid(ps[i]))>>
                    : i \in 1..Len(ps)}
            ELSE {<<v, manifest_entry(v, <<>>, bk, dk, "None")>>}
        : v \in DOMAIN VAR_TABLE}

\* dict(pairs), for pairs with distinct names
dict(pairs) ==
    [name \in {pr[1] : pr \in pairs} |-> (CHOOSE pr \in pairs : pr[1] = name)[2]]

NoManifest == [name \in {} |-> <<>>]

PressureValues == {200, 500, 800, 850, 1000}
Requests == {500, 850, 900}
SatInst == {<<"SAT_NPP", "INST_CRIS">>, <<"SAT_METOPA", "INST_IASI">>}

\* manifest = dict(_var_manifest(sat, inst, plev))
BuildManifest ==
    /\ manifest = NoManifest
    /\ Len(plev) > 0
    /\ \E si \in SatInst : manifest' = dict(VarManifest(si[1], si[2], plev))
    /\ UNCHANGED <<plev, p_req, dex>>

\* _layer_at_pressure(h5v, plev, p) called directly
SelectLayer ==
    /\ dex = <<>>
    /\ Len(plev) > 0
    /\ dex' = <<p_req, LayerIndex(plev, p_req)>>
    /\ UNCHANGED <<plev, p_req, manifest>>

\* the tool of a manifest entry called: tool(h5_var)
ApplyTool ==
    /\ dex = <<>>
    /\ \E name \in DOMAIN manifest :
          LET tool == manifest[name].tool
          IN  /\ tool # <<>>
              /\ dex' = <<tool[2], LayerIndex(tool[1], tool[2])>>
    /\ UNCHANGED <<plev, p_req, manifest>>

ManifestInit ==
    /\ plev \in BoundedSeq(PressureValues, MaxLevels) \ {<<>>}
    /\ p_req \in Requests
    /\ manifest = NoManifest
    /\ dex = <<>>

ManifestIdle ==
    /\ plev = <<>>
    /\ p_req = 0
    /\ manifest = NoManifest
    /\ dex = <<>>

-----------------------------------------------------------------------------
(* drrtv/swath.py: the input files of swathbuckler *)

\* The files a path may name.  layers, rows, cols: the shape of the file's 3-D
\* variables; its 2-D variables have the shape rows, cols.  missing: the
\* variables the container does not hold.
GoodPlevs == <<1000, 850, 500, 200>>

H5Catalogue == <<
    [name |-> "IASI_d20130310_t152624_M02.atm_prof_rtv.h5", hdf5 |-> TRUE,
     layers |-> 4, rows |-> 2, cols |-> 2, missing |-> {}, Plevs |-> GoodPlevs],
    [name |-> "IASI_d20130310_t152824_M02.atm_prof_rtv.h5", hdf5 |-> TRUE,
     layers |-> 4, rows |-> 1, cols |-> 2, missing |-> {}, Plevs |-> GoodPlevs],
    [name |-> "IASI_d20130310_t153024_M02.atm_prof_rtv.h5", hdf5 |-> FALSE,
     layers |-> 0, rows |-> 0, cols |-> 0, missing |-> {}, Plevs |-> <<>>],
    [name |-> "notes.h5", hdf5 |-> TRUE,
     layers |-> 4, rows |-> 1, cols |-> 2, missing |-> {}, Plevs |-> GoodPlevs],
    [name |-> "IASI_d20130310_t153224_M02.atm_prof_rtv.h5", hdf5 |-> TRUE,
     layers |-> 4, rows |-> 1, cols |-> 2,
     missing |-> DOMAIN VAR_TABLE \ {"CTT", "RelHum", "TAir"}, Plevs |-> GoodPlevs],
    [name |-> "IASI_d20130310_t152624_M03.atm_prof_rtv.h5", hdf5 |-> TRUE,
     layers |-> 4, rows |-> 1, cols |-> 2, missing |-> {}, Plevs |-> GoodPlevs],
    [name |-> "CrIS_d20130310_t152624.atm_prof_rtv.h5", hdf5 |-> TRUE,
     layers |-> 4, rows |-> 3, cols |-> 2, missing |-> {}, Plevs |-> GoodPlevs],
    [name |-> "IASI_d20130310_t153424_M02.atm_prof_rtv.h5", hdf5 |-> TRUE,
     layers |-> 4, rows |-> 1, cols |-> 3, missing |-> {}, Plevs |-> GoodPlevs],
    [name |-> "IASI_d2013_t15_M02.atm_prof_rtv.h5", hdf5 |-> TRUE,
     layers |-> 4, rows |-> 1, cols |-> 2, missing |-> {}, Plevs |-> GoodPlevs] >>

H5Paths == 1..Len(H5Catalogue)

\* RE_DRRTV.match(os.path.split(pn)[-1]): <<>> for no match, else <<groupdict>>
\* with sat "None" when the optional group did not take part
RE_DRRTV_match(name) ==
    CASE name = "IASI_d20130310_t152624_M02.atm_prof_rtv.h5" ->
            <<[inst |-> "IASI", date |-> "20130310", start_time |-> "152624", sat |-> "M02"]>>
      [] name = "IASI_d20130310_t152824_M02.atm_prof_rtv.h5" ->
            <<[inst |-> "IASI", date |-> "20130310", start_time |-> "152824", sat |-> "M02"]>>
      [] name = "IASI_d20130310_t153024_M02.atm_prof_rtv.h5" ->
            <<[inst |-> "IASI", date |-> "20130310", start_time |-> "153024", sat |-> "M02"]>>
      [] name = "notes.h5" -> <<>>
      [] name = "IASI_d20130310_t153224_M02.atm_prof_rtv.h5" ->
            <<[inst |-> "IASI", date |-> "20130310", start_time |-> "153224", sat |-> "M02"]>>
      [] name = "IASI_d20130310_t152624_M03.atm_prof_rtv.h5" ->
            <<[inst |-> "IASI", date |-> "20130310", start_time |-> "152624", sat |-> "M03"]>>
      [] name = "CrIS_d20130310_t152624.atm_prof_rtv.h5" ->
            <<[inst |-> "CrIS", date |-> "20130310", start_time |-> "152624", sat |-> "None"]>>
      [] name = "IASI_d20130310_t153424_M02.atm_prof_rtv.h5" ->
            <<[inst |-> "IASI", date |-> "20130310", start_time |-> "153424", sat |-> "M02"]>>
      [] name = "IASI_d2013_t15_M02.atm_prof_rtv.h5" ->
            <<[inst |-> "IASI", date |-> "2013", start_time |-> "15", sat |-> "M02"]>>

\* datetime.strptime('%(date)s %(start_time)s' % mgd, '%Y%m%d %H%M%S'): <<>> for
\* the ValueError of digits that are no date and time, else <<when>>
strptime(date, start_time) ==
    IF date = "20130310" /\ start_time \in {"152624", "152824", "153024", "153224", "153424"}
    THEN <<<<date, start_time>>>>
    ELSE <<>>

\* (sat, inst) => (p2g_sat, p2g_inst, rows_per_scan, nav_set_uid)
SAT_INST_TABLE ==
    [k \in {<<"None", "CRIS">>, <<"None", "CrIS">>, <<"M02", "IASI">>, <<"M01", "IASI">>,
            <<"None", "AIRS">>} |->
        CASE k = <<"None", "CRIS">> -> <<"SAT_NPP", "INST_CRIS", 3, "CRIS_NAV_UID">>
          [] k = <<"None", "CrIS">> -> <<"SAT_NPP", "INST_CRIS", 3, "CRIS_NAV_UID">>
          [] k = <<"M02", "IASI">> -> <<"SAT_METOPA", "INST_IASI", 1, "IASI_NAV_UID">>
          [] k = <<"M01", "IASI">> -> <<"SAT_METOPB", "INST_IASI", 1, "IASI_NAV_UID">>
          [] k = <<"None", "AIRS">> -> <<"SAT_AQUA", "INST_AIRS", 1, "AIRS_NAV_UID">>]

\* SAT_INST_TABLE.get((sat, inst), SAT_INST_TABLE.get((None, inst))): <<>> for None
SatInstGet(sat, inst) ==
    IF <<sat, inst>> \in DOMAIN SAT_INST_TABLE THEN <<SAT_INST_TABLE[<<sat, inst>>]>>
    ELSE IF <<"None", inst>> \in DOMAIN SAT_INST_TABLE THEN <<SAT_INST_TABLE[<<"None", inst>>]>>
    ELSE <<>>

\* _filename_info(pathname): [exc, info]; info is <<>> for None.  Unpacking
\* the None of a failed lookup into four names is a TypeError.
filename_info(pn) ==
    LET m == RE_DRRTV_match(H5Catalogue[pn].name)
    IN  IF m = <<>> THEN [exc |-> "none", info |-> <<>>]
        ELSE LET mgd == m[1]
                 when == strptime(mgd.date, mgd.start_time)
                 got == SatInstGet(mgd.sat, mgd.inst)
             IN  IF when = <<>> THEN [exc |-> "ValueError", info |-> <<>>]
                 ELSE IF got = <<>> THEN [exc |-> "TypeError", info |-> <<>>]
                 ELSE [exc |-> "none",
                       info |-> <<[start_time |-> when[1],
                                   nav_set_uid |-> got[1][4],
                                   sat |-> got[1][1],
                                   instrument |-> got[1][2],
                                   rows_per_scan |-> got[1][3]]>>]

HasVar(pn, v) == v \notin H5Catalogue[pn].missing

RECURSIVE SumRows(_)
SumRows(files) ==
    IF files = <<>> THEN 0 ELSE H5Catalogue[Head(files)].rows + SumRows(Tail(files))

\* _swath_shape(*h5s): layers and cols of the first file, the rows summed
swath_shape(files) ==
    IF \E i \in 1..Len(files) : ~HasVar(files[i], "RelHum")
    THEN [exc |-> "KeyError", layers |-> 0, rows |-> 0, cols |-> 0]
    ELSE [exc |-> "none",
          layers |-> H5Catalogue[files[1]].layers,
          rows |-> SumRows(files),
          cols |-> H5Catalogue[files[1]].cols]

\* _swath_info(*h5s): [exc, nfo]
swath_info(files) ==
    LET fn == filename_info(files[1])
        sh == swath_shape(files)
    IN  IF fn.exc # "none" THEN [exc |-> fn.exc, nfo |-> <<>>]
        ELSE IF sh.exc # "none" THEN [exc |-> sh.exc, nfo |-> <<>>]
        ELSE IF ~HasVar(files[1], "Plevs") THEN [exc |-> "KeyError", nfo |-> <<>>]
        ELSE [exc |-> "none",
              nfo |-> [swath_rows |-> sh.rows,
                       swath_cols |-> sh.cols,
                       swath_scans |-> sh.rows \div fn.info[1].rows_per_scan,
                       plev |-> H5Catalogue[files[1]].Plevs,
                       start_time |-> fn.info[1].start_time,
                       nav_set_uid |-> fn.info[1].nav_set_uid,
                       sat |-> fn.info[1].sat,
                       instrument |-> fn.info[1].instrument,
                       rows_per_scan |-> fn.info[1].rows_per_scan]]

-----------------------------------------------------------------------------
(* _swath_from_var, _write_array_to_fbf and swathbuckler._gobble, on shapes *)

\* the shape of variable v in file pn
VarShape(pn, v) ==
    IF v \in DOMAIN VAR_TABLE /\ Len(VAR_TABLE[v][3]) > 0
    THEN <<H5Catalogue[pn].layers, H5Catalogue[pn].rows, H5Catalogue[pn].cols>>
    ELSE <<H5Catalogue[pn].rows, H5Catalogue[pn].cols>>

\* the shape of _swath_from_var(var_name, h5_var, tool): the tool takes one
\* layer, h5v[dex, :]; without a tool a 3-D array has its layer axis rolled last
swath_from_var_shape(shape, tool) ==
    IF tool # <<>> THEN Tail(shape)
    ELSE IF Len(shape) = 3 THEN <<shape[2], shape[3], shape[1]>>
    ELSE shape

RECURSIVE SumFirst(_)
SumFirst(shapes) == IF shapes = <<>> THEN 0 ELSE Head(shapes)[1] + SumFirst(Tail(shapes))

\* np.concatenate(sections, axis=0): the sections agree on every axis but the first
concatenate_shape(shapes) ==
    IF \E i \in 1..Len(shapes) : Tail(shapes[i]) # Tail(shapes[1])
    THEN [exc |-> "ValueError", shape |-> <<>>]
    ELSE [exc |-> "none", shape |-> <<SumFirst(shapes)>> \o Tail(shapes[1])]

\* polar2grid.core.fbf.str_to_dtype: the suffix of a flat binary file -> numpy type
str_to_dtype ==
    [sfx \in {"real4", "real8", "int1", "int2", "int4", "int8",
              "uint1", "uint2", "uint4", "uint8"} |->
        CASE sfx = "real4" -> "float32"
          [] sfx = "real8" -> "float64"
          [] sfx = "int1" -> "int8"
          [] sfx = "int2" -> "int16"
          [] sfx = "int4" -> "int32"
          [] sfx = "int8" -> "int64"
          [] sfx = "uint1" -> "uint8"
          [] sfx = "uint2" -> "uint16"
          [] sfx = "uint4" -> "uint32"
          [] sfx = "uint8" -> "uint64"]

\* dict((v, k) for (k, v) in D.items())
dict_reverse(D) ==
    [v \in {D[k] : k \in DOMAIN D} |-> CHOOSE k \in DOMAIN D : D[k] = v]

nptype_to_suffix == dict_reverse(str_to_dtype)

\* _write_array_to_fbf(name, data): [exc, fn, files].  data is [shape, dtype,
\* masked], masked saying that the array has a mask attribute.  fn is "None"
\* for the None returned for an array that is not 2-D.  files are the files
\* written, each with the type and the shape of the elements put into it:
\* the suffix is taken from the type the array has before the last astype.
write_array_to_fbf(name, data) ==
    IF Len(data.shape) # 2 THEN [exc |-> "none", fn |-> "None", files |-> {}]
    ELSE LET dtype == IF data.masked THEN "float32" ELSE data.dtype
             rows == data.shape[1]
             cols == data.shape[2]
         IN  IF dtype \notin DOMAIN nptype_to_suffix
             THEN [exc |-> "KeyError", fn |-> "None", files |-> {}]
             ELSE LET fn == name \o "." \o nptype_to_suffix[dtype] \o "."
                               \o ToString(cols) \o "." \o ToString(rows)
                  IN  [exc |-> "none", fn |-> fn,
                       files |-> {[fn |-> fn, elem |-> "float32", rows |-> rows, cols |-> cols]}]

\* the rows of a section taken from file pn, named by their origin
section_rows(pn, shape) == [r \in 1..shape[1] |-> <<pn, r>>]

RECURSIVE concatenate_rows_reversed(_)
\* a concatenation that puts the later sections first
concatenate_rows_reversed(sections) ==
    IF sections = <<>> THEN <<>>
    ELSE concatenate_rows_reversed(Tail(sections)) \o Head(sections)

RECURSIVE concatenate_rows(_)
\* np.concatenate(sections, axis=0): the rows of the sections, in their order
concatenate_rows(sections) ==
    IF sections = <<>> THEN <<>> ELSE Head(sections) \o concatenate_rows(Tail(sections))

\* data[mask] = x with a boolean scalar for mask: "integer" in a numpy that
\* takes the scalar for the integer index 0 or 1, "mask" in a numpy that
\* takes it for a mask of the whole array
ScalarIndexRules == {"integer", "mask"}

\* a row of DEFAULT_FILL_VALUE
FillRow == <<0, 0>>

\* the rows of the file the writer makes of a swath that np.concatenate made:
\* the swath is a masked array that kept no mask of its sections, its .mask
\* is the scalar False, and the writer's data[mask] = DEFAULT_FILL_VALUE
\* fills row 0 where False is the index 0 and nothing where it is a mask
fill_by_nomask(rows) ==
    IF scalar_index = "integer" THEN [rows EXCEPT ![1] = FillRow] ELSE rows

\* _gobble(name, h5_var_name, tool): [exc, fn, rows, file_rows].
\* _swath_from_var always returns a masked array, so the writer coerces
\* whatever element type the variable has.  rows are the rows of the array
\* handed to the writer, file_rows the rows of the file it writes.
gobble(files, name, h5_var_name, tool) ==
    IF \E i \in 1..Len(files) : ~HasVar(files[i], h5_var_name)
    THEN [exc |-> "KeyError", fn |-> "None", rows |-> <<>>, file_rows |-> <<>>]
    ELSE LET sections ==
                 [i \in 1..Len(files) |->
                     swath_from_var_shape(VarShape(files[i], h5_var_name), tool)]
             swath == concatenate_shape(sections)
             rows == concatenate_rows([i \in 1..Len(files) |->
                                          section_rows(files[i], sections[i])])
         IN  IF swath.exc # "none"
             THEN [exc |-> swath.exc, fn |-> "None", rows |-> <<>>, file_rows |-> <<>>]
             ELSE LET w == write_array_to_fbf(name,
                               [shape |-> swath.shape, dtype |-> "float64", masked |-> TRUE])
                  IN  IF Len(swath.shape) = 2 /\ rows = <<>> /\ scalar_index = "integer"
                      THEN \* index 0 of an array without rows
                           [exc |-> "IndexError", fn |-> "None", rows |-> <<>>,
                            file_rows |-> <<>>]
                      ELSE [exc |-> w.exc, fn |-> w.fn, rows |-> rows,
                            file_rows |-> fill_by_nomask(rows)]

NoContents == [fn \in {} |-> <<>>]

\* the files after fn was written with rows; nothing is written for None
put(files, fn, rows) ==
    IF fn = "None" THEN files
    ELSE [f \in DOMAIN files \cup {fn} |-> IF f = fn THEN rows ELSE files[f]]

-----------------------------------------------------------------------------
(* _write_array_to_fbf, called on its own *)

MaxRank == 3        \* the highest rank of an array given to the writer

Dims == {1, 60, 252}
ArrayNames == {"swath_latitude", "CAPE"}
\* the element types of the arrays given; bool has no suffix in str_to_dtype
ArrayDtypes == {"float32", "float64", "int16", "uint8", "bool"}

\* fn = _write_array_to_fbf(name, data)
WriteArray ==
    /\ wr = <<>>
    /\ wr' = <<write_array_to_fbf(wa.name, wa)>>
    /\ UNCHANGED <<wa, sv, sr, ga, gr>>

NoArray == [name |-> "", shape |-> <<>>, dtype |-> "", masked |-> FALSE]
NoVar == [data |-> <<>>, missing_value |-> <<>>]
NoGobble == [name |-> "", swath |-> <<>>, explode |-> FALSE, filter |-> "None"]

WriterInit ==
    /\ wa \in [name : ArrayNames, shape : BoundedSeq(Dims, MaxRank),
                dtype : ArrayDtypes, masked : BOOLEAN]
    /\ wr = <<>>
    /\ sv = NoVar
    /\ sr = <<>>
    /\ ga = NoGobble
    /\ gr = <<>>

ArrayIdle ==
    /\ wa = NoArray
    /\ wr = <<>>
    /\ sv = NoVar
    /\ sr = <<>>
    /\ ga = NoGobble
    /\ gr = <<>>

-----------------------------------------------------------------------------
(* _swath_from_var, on the values of the elements *)

MaxElems == 2       \* the most elements of a variable given to _swath_from_var

\* Values are written in tenths: -9990 is -999.0.
\* polar2grid.core.constants.DEFAULT_FILL_VALUE, -999.0
DEFAULT_FILL_VALUE == -9990

\* the 0.5 of `np.abs(data - mv) < 0.5`
Tolerance == 5

\* h5_var.attrs['missing_value'][0] of the DR-RTV variables, -999.0
MissingValue == -9990

ElemValues == {-9996, -9995, -9994, -9990, -9986, -9985, -9984, 0, 2731}

\* a masking that takes the ends of the interval too
swath_from_var_closed(h5_var) ==
    IF h5_var.missing_value # <<>>
    THEN LET mv == h5_var.missing_value[1]
             mask == [i \in 1..Len(h5_var.data) |-> Abs(h5_var.data[i] - mv) <= Tolerance]
         IN  [data |-> [i \in 1..Len(h5_var.data) |->
                           IF mask[i] THEN DEFAULT_FILL_VALUE ELSE h5_var.data[i]],
              mask |-> mask]
    ELSE [data |-> h5_var.data, mask |-> [i \in 1..Len(h5_var.data) |-> FALSE]]

\* _swath_from_var(var_name, h5_var), the elements in any fixed order:
\* mask = np.abs(data - mv) < 0.5; data[mask] = DEFAULT_FILL_VALUE;
\* np.ma.masked_array(data, mask), or np.ma.masked_array(data) without the attribute
swath_from_var(h5_var) ==
    IF h5_var.missing_value # <<>>
    THEN LET mv == h5_var.missing_value[1]
             mask == [i \in 1..Len(h5_var.data) |-> Abs(h5_var.data[i] - mv) < Tolerance]
         IN  [data |-> [i \in 1..Len(h5_var.data) |->
                           IF mask[i] THEN DEFAULT_FILL_VALUE ELSE h5_var.data[i]],
              mask |-> mask]
    ELSE [data |-> h5_var.data, mask |-> [i \in 1..Len(h5_var.data) |-> FALSE]]

\* data = _swath_from_var(var_name, h5_var)
SwathFromVar ==
    /\ sr = <<>>
    /\ sr' = <<swath_from_var(sv)>>
    /\ UNCHANGED <<wa, wr, sv, ga, gr>>

VarInit ==
    /\ sv \in [data : BoundedSeq(ElemValues, MaxElems) \ {<<>>},
                missing_value : {<<>>, <<MissingValue>>}]
    /\ sr = <<>>
    /\ wa = NoArray
    /\ wr = <<>>
    /\ ga = NoGobble
    /\ gr = <<>>

-----------------------------------------------------------------------------
(* swathbuckler._gobble from the concatenated swath on, on the values *)

\* whether or not to interpolate data to an exploded swath, and by how much
DEFAULT_EXPLODE_SAMPLING == FALSE
EXPLODE_FACTOR == 64

MaxSwathRows == 2   \* the most rows of a concatenated swath
SwathCols == 2      \* the columns of a concatenated swath

\* longitudes in degrees
Longitudes == {-170, -10, 10, 170}

\* np.max(np.abs(np.diff(lon_swath[r,:]))) > 180.0
Jumps(row) == \E i \in 1..(Len(row) - 1) : Abs(row[i + 1] - row[i]) > 180

\* the values of lon_swath after _make_longitude_monotonic(lon_swath):
\* if a row jumps, lon_swath[lon_swath < 0] += 360.0
make_longitude_monotonic(lon_swath) ==
    IF \E r \in 1..Len(lon_swath) : Jumps(lon_swath[r])
    THEN [r \in 1..Len(lon_swath) |->
             [c \in 1..Len(lon_swath[r]) |->
                 IF lon_swath[r][c] < 0 THEN lon_swath[r][c] + 360 ELSE lon_swath[r][c]]]
    ELSE lon_swath

\* the values of _gobble's parameter filter: None, its default and its value
\* in every call (lines 424, 425, 435), and _make_longitude_monotonic, the
\* one filter of the module, named in the comment of line 425
Filters == {"None", "make_longitude_monotonic"}

\* a filter that leaves its argument alone and returns a changed copy
call_filter_on_copy(filter, swath) ==
    CASE filter = "None" -> [swath |-> swath, swarthy |-> swath]
      [] filter = "make_longitude_monotonic" ->
            [swath |-> swath, swarthy |-> make_longitude_monotonic(swath)]

\* swarthy = swath if filter is None else filter(swath): the values the names
\* swath and swarthy stand for afterwards.  _make_longitude_monotonic changes
\* its argument in place and returns it, so both names stand for the one
\* changed array.
call_filter(filter, swath) ==
    CASE filter = "None" -> [swath |-> swath, swarthy |-> swath]
      [] filter = "make_longitude_monotonic" ->
            [swath |-> make_longitude_monotonic(swath),
             swarthy |-> make_longitude_monotonic(swath)]

\* an array: the values it was made of, and the factor by which they were
\* upsampled (1: the array holds the values themselves)
masked_array(values) ==
    [shape |-> <<Len(values), Len(values[1])>>, dtype |-> "float64", masked |-> TRUE,
     values |-> values, factor |-> 1]

\* _explode(data, factor): the linear spline through data, sampled at
\* rows*factor by cols*factor points, as float32
explode(data, factor) ==
    [shape |-> <<data.shape[1] * factor, data.shape[2] * factor>>, dtype |-> "float32",
     masked |-> FALSE, values |-> data.values, factor |-> data.factor * factor]

\* _gobble from line 420 on: [exc, fn, array], array being arr_a_pirate
\*   swarthy = swath if filter is None else filter(swath)
\*   arr_a_pirate = _explode(swarthy, EXPLODE_FACTOR) if explode else swath
\*   return _write_array_to_fbf(name, arr_a_pirate)
gobble_swath(name, swath, do_explode, filter) ==
    LET f == call_filter(filter, swath)
        arr_a_pirate == IF do_explode THEN explode(masked_array(f.swarthy), EXPLODE_FACTOR)
                        ELSE masked_array(f.swath)
        w == write_array_to_fbf(name, arr_a_pirate)
    IN  [exc |-> w.exc, fn |-> w.fn, array |-> arr_a_pirate]

Gobble ==
    /\ gr = <<>>
    /\ ga # NoGobble
    /\ gr' = <<gobble_swath(ga.name, ga.swath, ga.explode, ga.filter)>>
    /\ UNCHANGED <<wa, wr, sv, sr, ga>>

\* _gobble as swathbuckler calls it: explode and filter are never given, so
\* they are DEFAULT_EXPLODE_SAMPLING and None
GobbleInit ==
    /\ ga \in [name : {"swath_longitude"},
                swath : UNION {[1..n -> [1..SwathCols -> Longitudes]] : n \in 2..MaxSwathRows},
                explode : {DEFAULT_EXPLODE_SAMPLING}, filter : {"None"}]
    /\ gr = <<>>
    /\ wa = NoArray
    /\ wr = <<>>
    /\ sv = NoVar
    /\ sr = <<>>

-----------------------------------------------------------------------------
(* Frontend.sort_files_by_nav_uid *)

NoBuckets == [uid \in {} |-> <<>>]

\* one turn of `for pn in filepaths`
SortFile ==
    /\ nav_result = "running" /\ nav_i <= Len(nav_filepaths)
    /\ LET pn == nav_filepaths[nav_i]
           file_info == filename_info(pn)
       IN  IF file_info.exc # "none"
           THEN nav_result' = file_info.exc /\ UNCHANGED <<nav_i, ret>>
           ELSE /\ nav_i' = nav_i + 1
                /\ UNCHANGED nav_result
                /\ IF file_info.info = <<>>
                   THEN UNCHANGED ret
                   ELSE LET uid == file_info.info[1].nav_set_uid
                        IN  ret' = [u \in DOMAIN ret \cup {uid} |->
                                       IF u = uid
                                       THEN (IF u \in DOMAIN ret THEN ret[u] ELSE <<>>) \o <<pn>>
                                       ELSE ret[u]]
    /\ UNCHANGED nav_filepaths

\* return ret
SortReturn ==
    /\ nav_result = "running" /\ nav_i > Len(nav_filepaths)
    /\ nav_result' = "returned"
    /\ UNCHANGED <<nav_filepaths, nav_i, ret>>

NavInit ==
    /\ nav_filepaths \in BoundedSeq(H5Paths, MaxH5)
    /\ nav_i = 1
    /\ ret = NoBuckets
    /\ nav_result = "running"

NavIdle ==
    /\ nav_filepaths = <<>>
    /\ nav_i = 1
    /\ ret = NoBuckets
    /\ nav_result = "idle"

-----------------------------------------------------------------------------
(* add_colormap.py: parse_color_table_file and create_colortable *)

MaxLines == 2       \* the longest colormap file made of the lines below

\* A line of the file: a comment (it starts with #), a blank line, or the
\* integers between its commas.
Comment == [kind |-> "comment", parts |-> <<>>]
Blank == [kind |-> "blank", parts |-> <<>>]
Data(parts) == [kind |-> "data", parts |-> parts]

FileLines ==
    {Comment, Blank, Data(<<0, 0, 0, 0, 0>>), Data(<<1, 255, 0, 0, 255>>),
     Data(<<2, 10, 20, 30, 255>>), Data(<<5, 40, 20, 0, 255>>),
     Data(<<255, 0, 0, 0, 255>>), Data(<<7, 7>>)}

\* the two files of the docstring: greyscale in two lines and in 256 lines
TwoLineFile == <<Data(<<0, 0, 0, 0, 255>>), Data(<<255, 255, 255, 255, 255>>)>>
GreyscaleFile == [i \in 1..256 |-> Data(<<i - 1, i - 1, i - 1, i - 1, 255>>)]

\* the third file of the docstring: 0 is a transparent fill value
FillFile == <<Comment, Data(<<0, 0, 0, 0, 0>>), Comment, Data(<<1, 255, 0, 0, 255>>),
              Comment, Data(<<255, 0, 0, 0, 255>>)>>

\* a file whose interpolation meets a double just below an integer:
\* np.linspace(0, 122, 15)[7] is 60.99999999999999
RoundingFile == <<Data(<<0, 0, 0, 0, 255>>), Data(<<15, 122, 0, 0, 255>>)>>

\* a file whose data lines are far apart: the step 2 / 4098 of
\* np.linspace(0, 2, 4099) is rounded up, and sample 2049 is 1.0
SparseFile == <<Data(<<0, 0, 0, 0, 255>>), Data(<<4099, 2, 0, 0, 255>>)>>

ColormapFiles ==
    BoundedSeq(FileLines, MaxLines)
        \cup {TwoLineFile, GreyscaleFile, FillFile, RoundingFile, SparseFile}

\* np.linspace computes in IEEE doubles: step = (stop - start) / (num - 1),
\* y = arange(0, num) * step + start, y[-1] = stop; astype(np.int) then drops
\* the fraction. A double is kept here exactly: the digits of its
\* significand in base 256, least significant first, and the exponent of two
\* of its unit.  A double has 53 bits of significand; a digit has 8.

RECURSIVE Nat2Digits(_)
Nat2Digits(x) == IF x = 0 THEN <<>> ELSE <<x % 256>> \o Nat2Digits(x \div 256)

RECURSIVE Digits2Nat(_)
Digits2Nat(ds) == IF ds = <<>> THEN 0 ELSE Head(ds) + 256 * Digits2Nat(Tail(ds))

\* without the zeros above the highest digit
RECURSIVE StripDigits(_)
StripDigits(ds) ==
    IF ds # <<>> /\ ds[Len(ds)] = 0
    THEN StripDigits(SubSeq(ds, 1, Len(ds) - 1))
    ELSE ds

DigitAt(ds, i) == IF i <= Len(ds) THEN ds[i] ELSE 0

\* ds * k + carry, for a small k
RECURSIVE MulDigits(_, _, _)
MulDigits(ds, k, carry) ==
    IF ds = <<>> THEN Nat2Digits(carry)
    ELSE LET t == Head(ds) * k + carry
         IN  <<t % 256>> \o MulDigits(Tail(ds), k, t \div 256)

RECURSIVE AddDigits(_, _, _)
AddDigits(x, y, carry) ==
    IF x = <<>> /\ y = <<>> THEN Nat2Digits(carry)
    ELSE LET t == DigitAt(x, 1) + DigitAt(y, 1) + carry
         IN  <<t % 256>> \o
             AddDigits(SubSeq(x, 2, Len(x)), SubSeq(y, 2, Len(y)), t \div 256)

\* x - y - borrow, for x >= y
RECURSIVE SubDigits(_, _, _)
SubDigits(x, y, borrow) ==
    IF x = <<>> THEN <<>>
    ELSE LET t == Head(x) - DigitAt(y, 1) - borrow
         IN  <<(t + 256) % 256>> \o
             SubDigits(Tail(x), SubSeq(y, 2, Len(y)), IF t < 0 THEN 1 ELSE 0)

RECURSIVE LessDigits(_, _)
LessDigits(x, y) ==
    LET sx == StripDigits(x)
        sy == StripDigits(y)
    IN  IF Len(sx) # Len(sy) THEN Len(sx) < Len(sy)
        ELSE IF sx = <<>> THEN FALSE
        ELSE IF sx[Len(sx)] # sy[Len(sy)] THEN sx[Len(sx)] < sy[Len(sy)]
        ELSE LessDigits(SubSeq(sx, 1, Len(sx) - 1), SubSeq(sy, 1, Len(sy) - 1))

\* the number of bits of ds, which has no zero above its highest digit
BitLength(ds) ==
    IF ds = <<>> THEN 0
    ELSE 8 * (Len(ds) - 1)
         + Cardinality({i \in 0..7 : 2^i <= ds[Len(ds)]})

\* ds divided by 2^s, the remainder dropped
ShiftRight(ds, s) ==
    LET r == s % 8
        rest == SubSeq(ds, s \div 8 + 1, Len(ds))
    IN  [i \in 1..Len(rest) |->
            rest[i] \div 2^r + (DigitAt(rest, i + 1) % 2^r) * 2^(8 - r)]

\* whether ds divided by 2^s leaves a remainder
Inexact(ds, s) ==
    \/ \E i \in 1..(s \div 8) : DigitAt(ds, i) # 0
    \/ DigitAt(ds, s \div 8 + 1) % 2^(s % 8) # 0

\* x * 2^s, for a small x
ShiftLeft(x, s) ==
    [i \in 1..(s \div 8) |-> 0] \o Nat2Digits(x * 2^(s % 8))

\* the double nearest to m * 2^e, ties to the even significand
RECURSIVE RoundDouble(_, _)
RoundDouble(m, e) ==
    LET sm == StripDigits(m)
        t == BitLength(sm) - 53
        half == ShiftRight(sm, t - 1)
        kept == ShiftRight(half, 1)
        up == /\ half[1] % 2 = 1
              /\ (Inexact(sm, t - 1) \/ kept[1] % 2 = 1)
    IN  IF t <= 0 THEN [m |-> sm, e |-> e]
        ELSE RoundDouble(IF up THEN AddDigits(kept, <<1>>, 0) ELSE kept, e + t)

\* the first n digits of r / d after the point, for r < d, above one more
\* digit that tells whether anything is left
RECURSIVE FracDigits(_, _, _, _)
FracDigits(r, d, n, acc) ==
    IF n = 0 THEN <<IF r = 0 THEN 0 ELSE 1>> \o acc
    ELSE FracDigits((r * 256) % d, d, n - 1, <<(r * 256) \div d>> \o acc)

\* the double x / d, for naturals x and d > 0.  The quotient is smaller
\* than 1 by fewer bits than d has, so with as many digits after the point
\* as d has and 8 more it has 64 bits or more from its first one on; the
\* digit of what is left goes below them, and the whole is rounded.
DivideDouble(x, d) ==
    LET n == Len(Nat2Digits(d)) + 8
    IN  RoundDouble(FracDigits(x % d, d, n, <<>>) \o Nat2Digits(x \div d),
                    0 - 8 * (n + 1))

\* the integer part of m * 2^e
TruncDouble(m, e) ==
    IF e >= 0 THEN Digits2Nat(m) * 2^e ELSE Digits2Nat(ShiftRight(m, 0 - e))

\* sample j of np.linspace(a, b, n).astype(np.int), j from 0: the fraction of
\* the double is dropped, so the sample is rounded toward zero
linspace_int(a, b, n, j) ==
    IF j = n - 1 /\ n > 1 THEN b
    ELSE IF b = a \/ j = 0 THEN a
    ELSE LET step == DivideDouble(Abs(b - a), n - 1)
             prod == RoundDouble(MulDigits(step.m, j, 0), step.e)
             pneg == b < a
             am == ShiftLeft(Abs(a), 0 - prod.e)
             aneg == a < 0
             sum == IF aneg = pneg THEN [m |-> AddDigits(am, prod.m, 0), neg |-> aneg]
                    ELSE IF LessDigits(am, prod.m)
                         THEN [m |-> SubDigits(prod.m, am, 0), neg |-> pneg]
                         ELSE [m |-> SubDigits(am, prod.m, 0), neg |-> aneg]
             y == RoundDouble(sum.m, prod.e)
             v == TruncDouble(y.m, y.e)
         IN  IF sum.neg THEN 0 - v ELSE v

Last(sq) == sq[Len(sq)]

\* the entries for prev_idx + 1 .. parts[0], from the last entry to parts
interpolated(last, parts, prev, num_samples) ==
    [k \in 1..num_samples |->
        <<prev + k,
          linspace_int(last[2], parts[2], num_samples, k - 1),
          linspace_int(last[3], parts[3], num_samples, k - 1),
          linspace_int(last[4], parts[4], num_samples, k - 1),
          linspace_int(last[5], parts[5], num_samples, k - 1)>>]

\* one turn of `for line in ct_file`
ParseLine ==
    /\ ct_result = "running" /\ ct_i <= Len(ct_file)
    /\ LET line == ct_file[ct_i]
           parts == line.parts
       IN  CASE line.kind = "comment" ->
                  /\ ct_i' = ct_i + 1
                  /\ UNCHANGED <<prev_idx, ct, ct_result>>
             [] line.kind = "blank" ->
                  \* a blank line is not empty: int('') raises
                  /\ ct_result' = "ValueError"
                  /\ UNCHANGED <<ct_i, prev_idx, ct>>
             [] line.kind = "data" /\ Len(parts) # 5 ->
                  /\ ct_result' = "AssertionError"
                  /\ UNCHANGED <<ct_i, prev_idx, ct>>
             [] line.kind = "data" /\ Len(parts) = 5 /\ prev_idx = <<>> ->
                  \* the first line: prefill everything up to its index
                  /\ ct' = ct \o [k \in 1..(parts[1] + 1) |-> <<k - 1>> \o Tail(parts)]
                  /\ prev_idx' = <<parts[1]>>
                  /\ ct_i' = ct_i + 1
                  /\ UNCHANGED ct_result
             [] line.kind = "data" /\ Len(parts) = 5 /\ prev_idx # <<>>
                    /\ parts[1] # prev_idx[1] + 1 /\ parts[1] - prev_idx[1] > 1 ->
                  /\ ct' = ct \o interpolated(Last(ct), parts, prev_idx[1], parts[1] - prev_idx[1])
                  /\ prev_idx' = <<parts[1]>>
                  /\ ct_i' = ct_i + 1
                  /\ UNCHANGED ct_result
             [] line.kind = "data" /\ Len(parts) = 5 /\ prev_idx # <<>>
                    /\ parts[1] # prev_idx[1] + 1 /\ parts[1] - prev_idx[1] <= 0 ->
                  \* an index that does not grow: np.linspace of no sample or of
                  \* a negative number of samples gives an empty array or a
                  \* ValueError, by the version of numpy
                  \/ /\ prev_idx' = <<parts[1]>>
                     /\ ct_i' = ct_i + 1
                     /\ UNCHANGED <<ct, ct_result>>
                  \/ /\ parts[1] - prev_idx[1] < 0
                     /\ ct_result' = "ValueError"
                     /\ UNCHANGED <<ct_i, prev_idx, ct>>
             [] line.kind = "data" /\ Len(parts) = 5 /\ prev_idx # <<>>
                    /\ parts[1] = prev_idx[1] + 1 ->
                  /\ ct' = Append(ct, parts)
                  /\ prev_idx' = <<parts[1]>>
                  /\ ct_i' = ct_i + 1
                  /\ UNCHANGED ct_result
    /\ UNCHANGED <<ct_file, color_table>>

\* after the loop: if prev_idx < 255: ct.extend([last_entry] * (255 - prev_idx)); return ct
ParseEnd ==
    /\ ct_result = "running" /\ ct_i > Len(ct_file)
    /\ IF prev_idx = <<>>
       THEN \* no data line: None < 255 holds in Python 2 and ct[-1] is an
            \* IndexError; in Python 3 the comparison is a TypeError
            /\ ct_result' \in {"IndexError", "TypeError"}
            /\ UNCHANGED ct
       ELSE /\ ct_result' = "returned"
            /\ ct' = IF prev_idx[1] < 255
                     THEN ct \o [k \in 1..(255 - prev_idx[1]) |-> Last(ct)]
                     ELSE ct
    /\ UNCHANGED <<ct_file, ct_i, prev_idx, color_table>>

\* for entry in ct_entries: ct.SetColorEntry(entry[0], tuple(entry[1:])):
\* every index set holds the colour of the last entry that names it
SetColorEntries(entries) ==
    [i \in {entries[k][1] : k \in 1..Len(entries)} |->
        LET k == CHOOSE k \in 1..Len(entries) :
                    /\ entries[k][1] = i
                    /\ \A j \in (k + 1)..Len(entries) : entries[j][1] # i
        IN  Tail(entries[k])]

\* create_colortable(ct_file), once the file is parsed
CreateColortable ==
    /\ ct_result = "returned" /\ color_table = <<>>
    /\ color_table' = <<SetColorEntries(ct)>>
    /\ UNCHANGED <<ct_file, ct_i, prev_idx, ct, ct_result>>

ColormapInit ==
    /\ ct_file \in ColormapFiles
    /\ ct_i = 1
    /\ prev_idx = <<>>
    /\ ct = <<>>
    /\ ct_result = "running"
    /\ color_table = <<>>

ColormapIdle ==
    /\ ct_file = <<>>
    /\ ct_i = 1
    /\ prev_idx = <<>>
    /\ ct = <<>>
    /\ ct_result = "idle"
    /\ color_table = <<>>

-----------------------------------------------------------------------------
(* swathbuckler *)

\* manifest.items(): the pairs (name, guide) of the dict.  The order in which
\* a loop meets them is the order of the dict's hash table, which the build
\* and the hash seed decide: no order is kept here, and the loop below is
\* modelled for every order.
items(m) == {<<name, m[name]>> : name \in DOMAIN m}

\* a validation that forgets the naming grammar
BadFilesNotHdf5Only(pathnames) ==
    {pathnames[i] : i \in {j \in 1..Len(pathnames) : ~H5Catalogue[pathnames[j]].hdf5}}

\* bad_files: not a proper HDF5 file, or a name RE_DRRTV does not match
BadFiles(pathnames) ==
    {pathnames[i] : i \in {j \in 1..Len(pathnames) :
        \/ ~H5Catalogue[pathnames[j]].hdf5
        \/ RE_DRRTV_match(H5Catalogue[pathnames[j]].name) = <<>>}}

\* the bad files found and dropped, the rest opened; return {} when none is left
Validate ==
    /\ spc = "validate"
    /\ LET good == SelectSeq(h5_pathnames, LAMBDA pn : pn \notin BadFiles(h5_pathnames))
       IN  /\ h5s' = good
           /\ IF good = <<>>
              THEN spc' = "done" /\ sresult' = "returned"
              ELSE spc' = "info" /\ UNCHANGED sresult
    /\ UNCHANGED <<scalar_index, h5_pathnames, nfo, todo, written, contents, swaths, fe_status, manifest>>

\* nfo = _swath_info(*h5s); bands = nfo['bands'] = {}
SwathInfo ==
    /\ spc = "info"
    /\ LET r == swath_info(h5s)
       IN  IF r.exc # "none"
           THEN spc' = "done" /\ sresult' = r.exc /\ UNCHANGED nfo
           ELSE /\ spc' = "manifest"
                /\ nfo' = [k \in DOMAIN r.nfo \cup {"bands"} |->
                              IF k = "bands" THEN {} ELSE r.nfo[k]]
                /\ UNCHANGED sresult
    /\ UNCHANGED <<scalar_index, h5_pathnames, h5s, todo, written, contents, swaths, fe_status, manifest>>

\* manifest = dict(_var_manifest(nfo['sat'], nfo['instrument'], nfo['_plev']))
Manifest ==
    /\ spc = "manifest"
    /\ manifest' = dict(VarManifest(nfo.sat, nfo.instrument, nfo.plev))
    /\ todo' = {item[1] : item \in items(manifest')}
    /\ spc' = "lat"
    /\ UNCHANGED <<scalar_index, h5_pathnames, h5s, nfo, written, contents, swaths, sresult, fe_status>>

\* if DEFAULT_EXPLODE_SAMPLING: nfo[...] *= EXPLODE_FACTOR, after the longitude
explode_adjust(info) ==
    IF DEFAULT_EXPLODE_SAMPLING
    THEN [info EXCEPT !.rows_per_scan = @ * EXPLODE_FACTOR,
                      !.swath_rows = @ * EXPLODE_FACTOR,
                      !.swath_cols = @ * EXPLODE_FACTOR]
    ELSE info

\* nfo[key] = _gobble(name, h5_var_name, None)
GobbleGeo(at, key, name, h5_var_name, then) ==
    /\ spc = at
    /\ LET r == gobble(h5s, name, h5_var_name, <<>>)
       IN  IF r.exc # "none"
           THEN spc' = "done" /\ sresult' = r.exc /\ UNCHANGED <<nfo, written, contents, swaths>>
           ELSE /\ spc' = then
                /\ nfo' = LET info == [k \in DOMAIN nfo \cup {key} |->
                                          IF k = key THEN r.fn ELSE nfo[k]]
                          IN  IF key = "fbf_lon" THEN explode_adjust(info) ELSE info
                /\ written' = IF r.fn = "None" THEN written ELSE written \cup {r.fn}
                /\ contents' = put(contents, r.fn, r.file_rows)
                /\ swaths' = put(swaths, r.fn, r.rows)
                /\ UNCHANGED sresult
    /\ UNCHANGED <<scalar_index, h5_pathnames, h5s, todo, fe_status, manifest>>

GobbleLatitude == GobbleGeo("lat", "fbf_lat", "swath_latitude", "Latitude", "lon")

GobbleLongitude == GobbleGeo("lon", "fbf_lon", "swath_longitude", "Longitude", "bands")

\* a band that takes the number of rows for the number of scans
band_descriptor_rows_as_scans(guide, filename, info) ==
    [band |-> guide.bid, data_kind |-> guide.dkind,
     remap_data_as |-> guide.dkind, kind |-> guide.bkind,
     fbf_img |-> filename,
     swath_rows |-> info.swath_rows, swath_cols |-> info.swath_cols,
     swath_scans |-> info.swath_rows,
     rows_per_scan |-> info.rows_per_scan, grids |-> "GRIDS_ANY"]

\* band = {...}, from the manifest entry, the file written and nfo
band_descriptor(guide, filename, info) ==
    [band |-> guide.bid, data_kind |-> guide.dkind,
     remap_data_as |-> guide.dkind, kind |-> guide.bkind,
     fbf_img |-> filename,
     swath_rows |-> info.swath_rows, swath_cols |-> info.swath_cols,
     swath_scans |-> info.swath_scans,
     rows_per_scan |-> info.rows_per_scan, grids |-> "GRIDS_ANY"]

\* the files after each of the arrays, [fn, rows], was written
put_each(files, arrays) ==
    LET fns == {a.fn : a \in arrays} \ {"None"}
    IN  [f \in DOMAIN files \cup fns |->
            IF f \in fns THEN (CHOOSE a \in arrays : a.fn = f).rows ELSE files[f]]

\* `for name, guide in manifest.items()`, all its turns: filename =
\* _gobble(name, guide.h5_var_name, guide.tool), band = {...},
\* bands[(guide.bkind, guide.bid)] = band.  When no extraction fails every
\* entry is extracted.  When some fail the loop ends at the first failing
\* entry it meets, with its exception, and the entries met before it, which
\* in some order of the dict are those of any set of entries that succeed,
\* are extracted.  The keys (bkind, bid) of the entries are distinct, so no
\* band replaces another.
ExtractBand ==
    /\ spc = "bands" /\ todo # {}
    /\ LET result == [name \in todo |->
                         gobble(h5s, name, manifest[name].h5_var_name, manifest[name].tool)]
           failing == {name \in todo : result[name].exc # "none"}
       IN  \E done \in (IF failing = {} THEN {todo} ELSE SUBSET (todo \ failing)) :
              /\ nfo' = [nfo EXCEPT !.bands = @ \cup
                            {band_descriptor(manifest[name], result[name].fn, nfo) :
                                name \in done}]
              /\ written' = written \cup ({result[name].fn : name \in done} \ {"None"})
              /\ contents' = put_each(contents,
                                {[fn |-> result[name].fn, rows |-> result[name].file_rows] :
                                    name \in done})
              /\ swaths' = put_each(swaths,
                                {[fn |-> result[name].fn, rows |-> result[name].rows] :
                                    name \in done})
              /\ todo' = todo \ done
              /\ IF failing = {}
                 THEN UNCHANGED <<spc, sresult>>
                 ELSE /\ spc' = "done"
                      /\ \E name \in failing : sresult' = result[name].exc
    /\ UNCHANGED <<scalar_index, h5_pathnames, h5s, fe_status, manifest>>

\* return nfo
ReturnMeta ==
    /\ spc = "bands" /\ todo = {}
    /\ spc' = "done" /\ sresult' = "returned"
    /\ UNCHANGED <<scalar_index, h5_pathnames, h5s, nfo, todo, written, contents, swaths, fe_status, manifest>>

MetaKeys == {"sat", "instrument", "start_time", "bands", "fbf_lat", "fbf_lon", "nav_set_uid"}

\* process_data_sets calling frontend.make_swaths and reading the meta data:
\* a StandardError (raised by the front end, or the KeyError of a key the
\* meta data lacks) is the frontend failure; no band is the unknown failure
ReadMetaData ==
    /\ spc = "done" /\ fe_status = <<>>
    /\ fe_status' =
          IF sresult # "returned" \/ ~(MetaKeys \subseteq DOMAIN nfo)
          THEN <<BitOr(STATUS_SUCCESS, STATUS_FRONTEND_FAIL)>>
          ELSE IF nfo.bands = {} THEN <<LogicalOr(STATUS_SUCCESS, STATUS_UNKNOWN_FAIL)>>
          ELSE <<STATUS_SUCCESS>>
    /\ UNCHANGED <<scalar_index, spc, h5_pathnames, h5s, nfo, todo, written, contents, swaths, sresult, manifest>>

SwathInit ==
    /\ spc = "validate"
    /\ h5_pathnames \in BoundedSeq(H5Paths, MaxH5)
    /\ h5s = <<>>
    /\ nfo = <<>>
    /\ todo = {}
    /\ written = {}
    /\ contents = NoContents
    /\ swaths = NoContents
    /\ scalar_index \in ScalarIndexRules
    /\ sresult = "running"
    /\ fe_status = <<>>

SwathIdle ==
    /\ spc = "idle"
    /\ h5_pathnames = <<>>
    /\ h5s = <<>>
    /\ nfo = <<>>
    /\ todo = {}
    /\ written = {}
    /\ contents = NoContents
    /\ swaths = NoContents
    /\ scalar_index = "mask"
    /\ sresult = "running"
    /\ fe_status = <<>>

-----------------------------------------------------------------------------
(* The specifications *)

NoGroup == [g \in Groups |-> "None"]
Idle == [g \in Groups |-> "idle"]
NoCode == [g \in Groups |-> <<>>]

\* main's call of run_glue, made a second time with the same files and
\* injected outcomes and multiprocess=True after a run with --sp
RunAgain ==
    /\ Ended /\ ~multiprocess /\ seq_result = <<>> /\ FinalStatus # <<>>
    /\ seq_result' = FinalStatus
    /\ multiprocess' = TRUE
    /\ pc' = [phase |-> "dispatch", g |-> "M"]
    /\ exit_status' = 0
    /\ proc' = NoGroup
    /\ joined' = {}
    /\ wpc' = Idle
    /\ status_to_return' = [g \in Groups |-> 0]
    /\ exitcode' = NoCode
    /\ UNCHANGED <<group_files, not_used, inject>>

GlueInit ==
    /\ multiprocess \in BOOLEAN
    /\ \E fps \in BoundedSeq(RawPaths, MaxFiles) :
          /\ group_files = [g \in Groups |-> GroupFiles(fps, g)]
          /\ not_used = NotUsed(fps)
    /\ filepaths = <<>>
    /\ pc = [phase |-> "dispatch", g |-> "M"]
    /\ exit_status = 0
    /\ proc = NoGroup
    /\ joined = {}
    /\ wpc = Idle
    /\ status_to_return = [g \in Groups |-> 0]
    /\ exitcode = NoCode
    /\ inject = [g \in Groups |-> "none"]
    /\ seq_result = <<>>

\* run_glue entered, before line 215
GroupInit ==
    /\ multiprocess \in BOOLEAN
    /\ filepaths \in BoundedSeq(RawPaths, MaxFiles)
    /\ group_files = [g \in Groups |-> <<>>]
    /\ not_used = {}
    /\ pc = [phase |-> "group", g |-> "-"]
    /\ exit_status = 0
    /\ proc = NoGroup
    /\ joined = {}
    /\ wpc = Idle
    /\ status_to_return = [g \in Groups |-> 0]
    /\ exitcode = NoCode
    /\ inject = [g \in Groups |-> "none"]
    /\ seq_result = <<>>

\* lines 215-224: the groups and the unused files of the list given
GroupInputs ==
    /\ pc = [phase |-> "group", g |-> "-"]
    /\ group_files' = [g \in Groups |-> GroupFiles(filepaths, g)]
    /\ not_used' = NotUsed(filepaths)
    /\ pc' = [phase |-> "dispatch", g |-> "M"]
    /\ UNCHANGED <<filepaths, multiprocess, exit_status, proc, joined, wpc,
                   status_to_return, exitcode, inject, seq_result>>

\* run_glue called again with the same inputs listed in another order or
\* listed more than once
GroupAgain ==
    /\ pc = [phase |-> "dispatch", g |-> "M"]
    /\ \E fps \in BoundedSeq(RawPaths, MaxFiles) :
          /\ Range(fps) = Range(filepaths)
          /\ fps # filepaths
          /\ filepaths' = fps
          /\ group_files' = [g \in Groups |-> GroupFiles(fps, g)]
          /\ not_used' = NotUsed(fps)
    /\ UNCHANGED <<pc, multiprocess, exit_status, proc, joined, wpc,
                   status_to_return, exitcode, inject, seq_result>>

GlueIdle ==
    /\ filepaths = <<>>
    /\ multiprocess = TRUE
    /\ group_files = [g \in Groups |-> <<>>]
    /\ not_used = {}
    /\ pc = [phase |-> "returned", g |-> "-"]
    /\ exit_status = 0
    /\ proc = NoGroup
    /\ joined = {}
    /\ wpc = Idle
    /\ status_to_return = [g \in Groups |-> 0]
    /\ exitcode = NoCode
    /\ inject = [g \in Groups |-> "none"]
    /\ seq_result = <<>>

Init == GlueInit /\ ManifestIdle /\ SwathIdle /\ ArrayIdle /\ NavIdle /\ ColormapIdle

Next ==
    \/ \E g \in Groups : Dispatch(g) /\ UNCHANGED not_glue
    \/ \E g \in Groups : Join(g) /\ UNCHANGED not_glue
    \/ \E g \in Groups : Construct(g) /\ UNCHANGED not_glue
    \/ \E g \in Groups : ExtractSwaths(g) /\ UNCHANGED not_glue
    \/ \E g \in Groups : DetermineGrid(g) /\ UNCHANGED not_glue
    \/ \E g \in Groups : Remap(g) /\ UNCHANGED not_glue
    \/ \E g \in Groups : Backend(g) /\ UNCHANGED not_glue
    \/ RunAgain /\ UNCHANGED not_glue

Spec == Init /\ [][Next]_vars

ManifestNext ==
    \/ BuildManifest /\ UNCHANGED not_manifest
    \/ SelectLayer /\ UNCHANGED not_manifest
    \/ ApplyTool /\ UNCHANGED not_manifest

SwathNext ==
    \/ Validate /\ UNCHANGED not_swath
    \/ SwathInfo /\ UNCHANGED not_swath
    \/ Manifest /\ UNCHANGED not_swath
    \/ GobbleLatitude /\ UNCHANGED not_swath
    \/ GobbleLongitude /\ UNCHANGED not_swath
    \/ ExtractBand /\ UNCHANGED not_swath
    \/ ReturnMeta /\ UNCHANGED not_swath
    \/ ReadMetaData /\ UNCHANGED not_swath

InitSwath == GlueIdle /\ ManifestIdle /\ SwathInit /\ ArrayIdle /\ NavIdle /\ ColormapIdle

SpecSwath == InitSwath /\ [][SwathNext]_vars

GroupNext ==
    \/ GroupInputs /\ UNCHANGED <<manifest_vars, swath_vars, array_vars, nav_vars, ct_vars>>
    \/ GroupAgain /\ UNCHANGED <<manifest_vars, swath_vars, array_vars, nav_vars, ct_vars>>

InitGroup == GroupInit /\ ManifestIdle /\ SwathIdle /\ ArrayIdle /\ NavIdle /\ ColormapIdle

SpecGroup == InitGroup /\ [][GroupNext]_vars

NavNext ==
    \/ SortFile /\ UNCHANGED not_nav
    \/ SortReturn /\ UNCHANGED not_nav

InitNav == GlueIdle /\ ManifestIdle /\ SwathIdle /\ ArrayIdle /\ NavInit /\ ColormapIdle

SpecNav == InitNav /\ [][NavNext]_vars

ColormapNext ==
    \/ ParseLine /\ UNCHANGED not_ct
    \/ ParseEnd /\ UNCHANGED not_ct
    \/ CreateColortable /\ UNCHANGED not_ct

InitColormap == GlueIdle /\ ManifestIdle /\ SwathIdle /\ ArrayIdle /\ NavIdle /\ ColormapInit

SpecColormap == InitColormap /\ [][ColormapNext]_vars

WriterNext ==
    \/ WriteArray /\ UNCHANGED not_array

InitWriter == GlueIdle /\ ManifestIdle /\ SwathIdle /\ WriterInit /\ NavIdle /\ ColormapIdle

SpecWriter == InitWriter /\ [][WriterNext]_vars

VarNext ==
    \/ SwathFromVar /\ UNCHANGED not_array

InitVar == GlueIdle /\ ManifestIdle /\ SwathIdle /\ VarInit /\ NavIdle /\ ColormapIdle

SpecVar == InitVar /\ [][VarNext]_vars

GobbleNext ==
    Gobble /\ UNCHANGED not_array

InitGobble == GlueIdle /\ ManifestIdle /\ SwathIdle /\ GobbleInit /\ NavIdle /\ ColormapIdle

SpecGobble == InitGobble /\ [][GobbleNext]_vars

InitManifest == GlueIdle /\ ManifestInit /\ SwathIdle /\ ArrayIdle /\ NavIdle /\ ColormapIdle

SpecManifest == InitManifest /\ [][ManifestNext]_vars

-----------------------------------------------------------------------------
(* Claims about run_glue *)

NonEmpty == {g \in Groups : Len(group_files[g]) > 0}
CodeOf(g) == IF exitcode[g] = <<>> THEN 0 ELSE exitcode[g][1]
StartFailed == \E g \in Groups : proc[g] = "created"
Running(g) == wpc[g] \notin {"idle", "exited"}

\* C1: when run_glue has returned, the status it returns is the bitwise OR
\* of the terminal statuses of the non-empty groups.
C1_StatusIsBitwiseOr ==
    pc.phase = "returned" =>
        exit_status = BitOr(BitOr(CodeOf("M"), CodeOf("I")), CodeOf("DNB"))

\* C2: a run with multiprocess=True ends with the same final status as the
\* run with multiprocess=False made before it on the same files with the
\* same injected outcomes.
C2_SameStatusInBothModes ==
    (Ended /\ seq_result # <<>> /\ FinalStatus # <<>>) => FinalStatus = seq_result

\* the failure flag a stage failure sets, as an exit status
FlagOf(o) ==
    CASE o = "frontend_fail" -> ExitCode(STATUS_FRONTEND_FAIL)
      [] o = "no_bands" -> ExitCode(STATUS_UNKNOWN_FAIL)
      [] o = "gdeter_fail" -> ExitCode(STATUS_GDETER_FAIL)
      [] o = "remap_fail" -> ExitCode(STATUS_REMAP_FAIL)
      [] o = "backend_fail" -> ExitCode(STATUS_BACKEND_FAIL)

\* C3: with one file in each of the three groups, a stage failure forced in
\* exactly one group and no other fault, a run that has ended has run the
\* pipeline of all three groups to its end, the two other groups ended with
\* status 0, and the final status is the failing group's flag.
C3_OneFailureIsolated ==
    \A g \in Groups :
        ( /\ Ended /\ ~StartFailed
          /\ \A h \in Groups : Len(group_files[h]) = 1
          /\ inject[g] \in StageFailures
          /\ \A h \in Groups \ {g} : inject[h] \in {"ok", "none"} )
        => /\ \A h \in Groups : wpc[h] = "exited"
           /\ \A h \in Groups \ {g} : exitcode[h] = <<0>>
           /\ FinalStatus = <<FlagOf(inject[g])>>

\* C4: once the pipeline of a group has raised a memory error, an OS error,
\* another standard error or a keyboard interrupt, the code running it has
\* ended with a non-zero exit status and run_glue has not been ended by it.
C4_WorkerFaultContained ==
    \A g \in Groups :
        (wpc[g] = "exited" /\ inject[g] \in Caught)
        => /\ exitcode[g] # <<>> /\ exitcode[g][1] # 0
           /\ pc.phase # "SystemExit"

WorkerStep(g) ==
    Construct(g) \/ ExtractSwaths(g) \/ DetermineGrid(g) \/ Remap(g) \/ Backend(g)

\* C5: in parallel mode run_glue has tried to start a worker for every
\* non-empty group before it waits on any; when it has returned, every
\* worker it started has ended and was joined; and a running worker can
\* always take its next step, whatever the status its siblings ended with.
C5_AllStartedAllJoined ==
    multiprocess =>
        /\ (pc.phase \in {"join", "returned"} \/ joined # {})
              => \A g \in NonEmpty : proc[g] \in {"started", "created"}
        /\ \A g \in NonEmpty : (proc[g] = "created" => exit_status # 0)
        /\ pc.phase = "returned"
              => \A g \in NonEmpty : proc[g] = "started" /\ wpc[g] = "exited" /\ g \in joined
        /\ \A g \in Groups : Running(g) => ENABLED WorkerStep(g)

C5_Witness ==
    /\ multiprocess /\ pc.phase = "returned"
    /\ NonEmpty = Groups
    /\ exitcode["M"] = <<STATUS_FRONTEND_FAIL>>
    /\ exitcode["I"] = <<0>> /\ exitcode["DNB"] = <<0>>
    /\ joined = Groups

C6_EmptyUntouched ==
    /\ \A g \in Groups \ NonEmpty :
          /\ proc[g] = "None" /\ wpc[g] = "idle" /\ exitcode[g] = <<>>
          /\ inject[g] = "none" /\ g \notin joined
    /\ NonEmpty = {} =>
          /\ exit_status = 0
          /\ pc.phase \notin {"call", "SystemExit", "AssertionError"}

C6_EmptyStep ==
    (pc.phase \in {"dispatch", "join"} /\ pc.g \notin NonEmpty) => exit_status' = exit_status

\* C6: in either mode a group with no files gets no worker and no run of the
\* pipeline, the steps run_glue takes for it leave exit_status as it was,
\* and with all three groups empty run_glue returns 0.
C6_EmptyGroupsContributeNothing ==
    [](C6_EmptyUntouched) /\ [][C6_EmptyStep]_vars

C6_Witness ==
    /\ pc.phase = "returned" /\ ~multiprocess
    /\ NonEmpty = {} /\ not_used # {}
    /\ exit_status = 0

\* the bits of old are bits of new, both seen as the 8 bits of an exit status
KeepsBits(new, old) == BitOr(ExitCode(new), ExitCode(old)) = ExitCode(new)

C16_Step ==
    seq_result' = seq_result =>
        /\ KeepsBits(exit_status', exit_status)
        /\ \A g \in Groups : KeepsBits(status_to_return'[g], status_to_return[g])

C16_Returned ==
    /\ \A g \in Groups :
          (wpc[g] = "exited" /\ inject[g] \notin Faults)
              => KeepsBits(exitcode[g][1], status_to_return[g])
    /\ pc.phase = "returned" => KeepsBits(FinalStatus[1], exit_status)

\* C16: within one run, no step of process_data_sets or of run_glue clears a
\* bit of the running status (status_to_return, exit_status), and the status
\* returned holds every bit of the running status.
C16_BitsNeverCleared ==
    [](C16_Returned) /\ [][C16_Step]_vars

C16_Witness ==
    /\ multiprocess /\ pc.phase = "returned"
    /\ exitcode["M"] = <<STATUS_FRONTEND_FAIL>>
    /\ exitcode["I"] = <<0>>
    /\ exitcode["DNB"] = <<STATUS_BACKEND_FAIL>>
    /\ status_to_return["DNB"] = STATUS_BACKEND_FAIL
    /\ exit_status = STATUS_FRONTEND_FAIL

StageOrder ==
    {<<"idle", "init">>, <<"init", "frontend">>, <<"frontend", "gdeter">>,
     <<"gdeter", "remap">>, <<"remap", "backend">>}

FailureFlags ==
    {STATUS_FRONTEND_FAIL, STATUS_GDETER_FAIL, STATUS_REMAP_FAIL, STATUS_BACKEND_FAIL,
     STATUS_UNKNOWN_FAIL}

C20_Step ==
    seq_result' = seq_result =>
        \A g \in Groups :
            wpc'[g] # wpc[g] => (wpc'[g] = "exited" \/ <<wpc[g], wpc'[g]>> \in StageOrder)

C20_State ==
    \A g \in Groups :
        /\ wpc[g] \in {"frontend", "gdeter", "remap", "backend"} => status_to_return[g] = STATUS_SUCCESS
        /\ (wpc[g] = "exited" /\ inject[g] \notin Faults) =>
              /\ status_to_return[g] \in {STATUS_SUCCESS} \cup FailureFlags
              /\ exitcode[g] = <<ExitCode(status_to_return[g])>>
              /\ status_to_return[g] = STATUS_SUCCESS <=> inject[g] = "ok"

\* C20: process_data_sets goes through extraction, grid determination,
\* remap and backend in this order, is at a stage only with the success
\* status of every stage before it, and returns either 0 or exactly one of
\* the five failure flags.
C20_StagesInOrderOneFlag ==
    [](C20_State) /\ [][C20_Step]_vars

C20_Witness ==
    /\ wpc["M"] = "exited" /\ inject["M"] = "remap_fail"
    /\ status_to_return["M"] = STATUS_REMAP_FAIL
    /\ wpc["I"] = "exited" /\ inject["I"] = "ok" /\ status_to_return["I"] = STATUS_SUCCESS

\* every non-empty group has a worker that was started and ended with exit status 0
AllWorkersSucceeded ==
    \A g \in NonEmpty :
        proc[g] = "started" /\ wpc[g] = "exited" /\ exitcode[g] = <<0>>

\* the start of a worker failed, or a worker ended with a non-zero exit status
SomeWorkerFailed ==
    \E g \in NonEmpty :
        \/ proc[g] = "created"
        \/ proc[g] = "started" /\ wpc[g] = "exited" /\ exitcode[g] # <<0>>

\* C21: in parallel mode run_glue returns a status whenever it ends; the
\* status is 0 if and only if every non-empty group's worker was started and
\* ended with exit status 0, and it is non-zero when a worker ended with a
\* non-zero status or the start of a worker failed.
C21_ParallelStatus ==
    (multiprocess /\ Ended) =>
        /\ pc.phase = "returned"
        /\ exit_status = 0 <=> AllWorkersSucceeded
        /\ SomeWorkerFailed => exit_status # 0

\* what holds of C21 in the code: the status of a run_glue that does return
C21_StatusWhenReturned ==
    (multiprocess /\ pc.phase = "returned") =>
        /\ exit_status = 0 <=> AllWorkersSucceeded
        /\ SomeWorkerFailed => exit_status # 0

-----------------------------------------------------------------------------
(* Claims about _var_manifest and _layer_at_pressure *)

EntriesOf(v) == {name \in DOMAIN manifest : manifest[name].h5_var_name = v}

\* C9: the manifest holds, for every variable of the lookup with N pressure
\* levels, exactly N entries, one per level p, named {variable}_{p}mb and
\* carrying the layer-selection tool for p; for every variable of the lookup
\* without levels exactly one entry, named by the variable, with no tool;
\* and no entry for a variable that is not in the lookup.
C9_ManifestEntries ==
    manifest # NoManifest =>
        /\ \A v \in DOMAIN VAR_TABLE :
              LET ps == VAR_TABLE[v][3]
              IN  IF Len(ps) > 0
                  THEN /\ Cardinality(EntriesOf(v)) = Len(ps)
                       /\ \A i \in 1..Len(ps) :
                             /\ LayerName(v, ps[i]) \in EntriesOf(v)
                             /\ manifest[LayerName(v, ps[i])].tool = <<plev, ps[i]>>
                  ELSE /\ EntriesOf(v) = {v}
                       /\ manifest[v].tool = <<>>
        /\ \A v \in OtherH5Vars : EntriesOf(v) = {} /\ v \notin DOMAIN manifest
        /\ \A name \in DOMAIN manifest : manifest[name].h5_var_name \in DOMAIN VAR_TABLE

C9_Witness ==
    /\ manifest # NoManifest
    /\ EntriesOf("TAir") = {"TAir_500mb", "TAir_900mb"}
    /\ EntriesOf("CAPE") = {"CAPE"}
    /\ Cardinality(DOMAIN manifest) = 22

\* C10: the index chosen for a non-empty profile and a requested level is an
\* index of the profile whose pressure is at least as near to the request as
\* every other, and it is the first such index (so the same inputs give the
\* same index); for the profile 1000, 850, 500, 200 and the request 900 it is 1.
C10_NearestLayer ==
    dex # <<>> =>
        LET p == dex[1]
            i == dex[2]
        IN  /\ i \in 0..(Len(plev) - 1)
            /\ \A j \in 0..(Len(plev) - 1) : Abs(plev[i + 1] - p) <= Abs(plev[j + 1] - p)
            /\ \A j \in 0..(i - 1) : Abs(plev[j + 1] - p) > Abs(plev[i + 1] - p)
            /\ (plev = <<1000, 850, 500, 200>> /\ p = 900) => i = 1

C10_Witness ==
    /\ plev = <<1000, 850, 500, 200>>
    /\ dex = <<900, 1>>

-----------------------------------------------------------------------------
(* Claims about swathbuckler *)

BandKeys == {<<b.kind, b.band>> : b \in nfo.bands}

\* C7: when swathbuckler has got past latitude and longitude and has ended,
\* it has returned the metadata; the band of every manifest entry whose
\* extraction fails is left out of it and the band of every other entry is in it.
C7_FailedEntryOmitted ==
    (spc = "done" /\ "fbf_lon" \in DOMAIN nfo) =>
        /\ sresult = "returned"
        /\ \A name \in DOMAIN manifest :
              LET guide == manifest[name]
                  r == gobble(h5s, name, guide.h5_var_name, guide.tool)
              IN  (r.exc = "none") <=> (<<guide.bkind, guide.bid>> \in BandKeys)

Usable(pn) == H5Catalogue[pn].hdf5 /\ RE_DRRTV_match(H5Catalogue[pn].name) # <<>>

\* C8: once the input is validated, the files opened are exactly the input
\* paths that are HDF5 containers with a name of the DR-RTV grammar, and
\* swathbuckler raises only when at least one such file is left; when none
\* is left it has returned empty metadata and written no file, and
\* process_data_sets makes the frontend failure of it.
C8_InvalidFilesExcluded ==
    spc # "validate" =>
        /\ \A pn \in Range(h5_pathnames) : (pn \in Range(h5s)) <=> Usable(pn)
        /\ sresult \notin {"running", "returned"} => h5s # <<>>
        /\ h5s = <<>> =>
              /\ spc = "done" /\ sresult = "returned"
              /\ nfo = <<>> /\ written = {}
              /\ fe_status \in {<<>>, <<STATUS_FRONTEND_FAIL>>}

C8_Witness ==
    /\ Len(h5_pathnames) = 2
    /\ \E pn \in Range(h5_pathnames) : ~H5Catalogue[pn].hdf5
    /\ \E pn \in Range(h5_pathnames) : RE_DRRTV_match(H5Catalogue[pn].name) = <<>>
    /\ spc = "done" /\ sresult = "returned" /\ nfo = <<>> /\ written = {}
    /\ fe_status = <<STATUS_FRONTEND_FAIL>>

-----------------------------------------------------------------------------
(* Claims about _write_array_to_fbf *)

\* C11: given an array whose rank is not 2 the writer writes no file and
\* returns None; given an array of rank 2 with R rows and C columns it writes
\* exactly one file and returns its name, which ends in .C.R; the 4-byte
\* float array of 252 rows and 60 columns named swath_latitude gives
\* swath_latitude.real4.60.252.
C11_WriterRankAndName ==
    wr # <<>> =>
        LET r == wr[1]
        IN  /\ r.exc = "none"
            /\ Len(wa.shape) # 2 => (r.fn = "None" /\ r.files = {})
            /\ Len(wa.shape) = 2 =>
                  /\ r.fn # "None"
                  /\ Cardinality(r.files) = 1
                  /\ \A f \in r.files : f.fn = r.fn
                  /\ \E stem \in {wa.name \o "." \o sfx : sfx \in DOMAIN str_to_dtype} :
                        r.fn = stem \o "." \o ToString(wa.shape[2]) \o "." \o ToString(wa.shape[1])
            /\ (wa.name = "swath_latitude" /\ wa.shape = <<252, 60>> /\ wa.dtype = "float32")
                  => r.fn = "swath_latitude.real4.60.252"

\* what holds of C11 in the code: the same for the arrays that carry a mask
\* or whose element type has a suffix
C11_WhenTypeHasSuffix ==
    (wr # <<>> /\ (wa.masked \/ wa.dtype \in DOMAIN nptype_to_suffix)) =>
        LET r == wr[1]
        IN  /\ r.exc = "none"
            /\ Len(wa.shape) # 2 => (r.fn = "None" /\ r.files = {})
            /\ Len(wa.shape) = 2 =>
                  /\ r.fn # "None"
                  /\ Cardinality(r.files) = 1
                  /\ \A f \in r.files : f.fn = r.fn
                  /\ \E stem \in {wa.name \o "." \o sfx : sfx \in DOMAIN str_to_dtype} :
                        r.fn = stem \o "." \o ToString(wa.shape[2]) \o "." \o ToString(wa.shape[1])

\* C12: for every array of rank 2 the writer accepts, whatever its element
\* type and with or without a mask, the file holds 4-byte floats and the
\* suffix of the name returned is real4, the suffix of that type.
C12_SuffixDescribesData ==
    (wr # <<>> /\ Len(wa.shape) = 2) =>
        LET r == wr[1]
        IN  /\ r.exc = "none"
            /\ \A f \in r.files : f.elem = "float32"
            /\ r.fn = wa.name \o ".real4." \o ToString(wa.shape[2]) \o "." \o ToString(wa.shape[1])

-----------------------------------------------------------------------------
(* Claims about _swath_from_var *)

\* C13 as stated: with the sentinel -999.0 every element whose value lies in
\* the closed interval [-999.5, -998.5] is masked and replaced by the fill
\* value, and every element outside it keeps its value and is not masked.
C13_ClosedIntervalMasked ==
    (sr # <<>> /\ sv.missing_value = <<MissingValue>>) =>
        \A i \in 1..Len(sv.data) :
            IF -9995 <= sv.data[i] /\ sv.data[i] <= -9985
            THEN sr[1].mask[i] /\ sr[1].data[i] = DEFAULT_FILL_VALUE
            ELSE ~sr[1].mask[i] /\ sr[1].data[i] = sv.data[i]

\* C13 amended: with the sentinel -999.0 every element whose value lies
\* strictly between -999.5 and -998.5 is masked and replaced by the fill
\* value, and every other element, -999.5 and -998.5 included, keeps its
\* value and is not masked.
C13_OpenIntervalMasked ==
    (sr # <<>> /\ sv.missing_value = <<MissingValue>>) =>
        /\ Len(sr[1].data) = Len(sv.data) /\ Len(sr[1].mask) = Len(sv.data)
        /\ \A i \in 1..Len(sv.data) :
              IF -9995 < sv.data[i] /\ sv.data[i] < -9985
              THEN sr[1].mask[i] /\ sr[1].data[i] = DEFAULT_FILL_VALUE
              ELSE ~sr[1].mask[i] /\ sr[1].data[i] = sv.data[i]

C13_Witness ==
    /\ sv = [data |-> <<-9994, -9995>>, missing_value |-> <<MissingValue>>]
    /\ sr = <<[data |-> <<DEFAULT_FILL_VALUE, -9995>>, mask |-> <<TRUE, FALSE>>]>>

-----------------------------------------------------------------------------
(* Claims about the grouping of run_glue *)

Grouped == pc.phase = "dispatch"

C14_GroupsWellFormed ==
    Grouped =>
        /\ \A g \in Groups :
              /\ \A i \in 1..(Len(group_files[g]) - 1) : group_files[g][i] < group_files[g][i + 1]
              /\ Range(group_files[g]) =
                    {abspath(x) : x \in {y \in Range(filepaths) : startswith(abspath(y), Prefix(g))}}
        /\ \A g, h \in Groups : g # h => Range(group_files[g]) \cap Range(group_files[h]) = {}

C14_SameSetSameGroups ==
    (Grouped /\ Grouped' /\ Range(filepaths') = Range(filepaths))
        => (group_files' = group_files /\ not_used' = not_used)

\* C14: the groups depend only on the set of the input paths: each group
\* holds the absolute paths of the inputs with its prefix, each once, in
\* ascending order, no file is in two groups, and a call with the same
\* inputs reordered or repeated makes the same groups.
C14_GroupingDependsOnSetOnly ==
    [](C14_GroupsWellFormed) /\ [][C14_SameSetSameGroups]_vars

C14_Witness ==
    /\ Grouped
    /\ filepaths = <<6, 4, 6>>
    /\ group_files = [M |-> <<3, 4>>, I |-> <<>>, DNB |-> <<>>]

-----------------------------------------------------------------------------
(* Claims about Frontend.sort_files_by_nav_uid *)

Buckets(pn) == {u \in DOMAIN ret : pn \in Range(ret[u])}
NameOf(pn) == RE_DRRTV_match(H5Catalogue[pn].name)

\* C15: sort_files_by_nav_uid fails on no list of paths: once its loop has
\* ended it has returned, every path is in exactly one bucket or in none,
\* a path whose name matches the grammar with a pair of instrument and
\* satellite that the table lacks included, and a path whose name has no
\* satellite field is in the bucket of its instrument's entry without satellite.
C15_SortNeverFails ==
    nav_result \notin {"idle", "running"} =>
        /\ nav_result = "returned"
        /\ \A pn \in Range(nav_filepaths) : Cardinality(Buckets(pn)) <= 1
        /\ \A pn \in Range(nav_filepaths) :
              (NameOf(pn) # <<>> /\ NameOf(pn)[1].sat = "None"
                  /\ <<"None", NameOf(pn)[1].inst>> \in DOMAIN SAT_INST_TABLE)
              => Buckets(pn) = {SAT_INST_TABLE[<<"None", NameOf(pn)[1].inst>>][4]}

\* C17: every band descriptor of the metadata carries the swath_rows,
\* swath_cols, swath_scans and rows_per_scan of the group: in the metadata
\* returned, and in the metadata of a loop that a failing entry ended,
\* whichever entries it met before.
C17_BandsShareGeometry ==
    nfo # <<>> =>
        \A b \in nfo.bands :
            /\ b.swath_rows = nfo.swath_rows
            /\ b.swath_cols = nfo.swath_cols
            /\ b.swath_scans = nfo.swath_scans
            /\ b.rows_per_scan = nfo.rows_per_scan

C17_Witness ==
    /\ spc = "done" /\ sresult = "returned"
    /\ h5s = <<7>>
    /\ Cardinality(nfo.bands) = 22
    /\ nfo.swath_rows = 3 /\ nfo.swath_scans = 1 /\ nfo.rows_per_scan = 3

\* the file that row k of the group's swath comes from, and its row there
RowsBefore(i) == SumRows(SubSeq(h5s, 1, i - 1))
FileOfRow(k) == CHOOSE i \in 1..Len(h5s) : RowsBefore(i) < k /\ k <= RowsBefore(i + 1)
GroupRows == [k \in 1..SumRows(h5s) |-> <<h5s[FileOfRow(k)], k - RowsBefore(FileOfRow(k))>>]

\* C18: for a group of valid files that agree on the column count, the
\* metadata returned record as swath_rows the sum of the files' row counts
\* and as swath_cols their column count, and the swath of every band holds
\* the rows of the input files one file after the other in the order of the
\* input, under a name that ends in .swath_cols.swath_rows.  The same holds
\* of the bands of a loop that a failing entry ended, whichever entries it
\* met before.
C18_RowsConcatenatedInOrder ==
    (nfo # <<>> /\ (nfo.bands # {} \/ sresult = "returned")) =>
        /\ nfo.swath_rows = SumRows(h5s)
        /\ \A i \in 1..Len(h5s) : nfo.swath_cols = H5Catalogue[h5s[i]].cols
        /\ h5s = SelectSeq(h5_pathnames, Usable)
        /\ \A b \in nfo.bands :
              /\ b.fbf_img \in DOMAIN swaths
              /\ swaths[b.fbf_img] = GroupRows
              /\ Len(swaths[b.fbf_img]) = nfo.swath_rows
              /\ \E name \in DOMAIN manifest :
                    b.fbf_img = name \o ".real4." \o ToString(nfo.swath_cols)
                                     \o "." \o ToString(nfo.swath_rows)

C18_Witness ==
    /\ spc = "done" /\ sresult = "returned"
    /\ h5_pathnames = <<2, 1>>
    /\ nfo.swath_rows = 3 /\ nfo.swath_cols = 2
    /\ Cardinality(nfo.bands) = 22
    /\ swaths["TAir_500mb.real4.2.3"] = <<<<2, 1>>, <<1, 1>>, <<1, 2>>>>

-----------------------------------------------------------------------------
(* swathbuckler._gobble: what reaches the writer *)

\* the values a filter returns for a swath
FilterResult(filter, swath) ==
    IF filter = "None" THEN swath ELSE make_longitude_monotonic(swath)

\* C22: the array _gobble hands to the writer is made of the filter's result
\* whenever a filter is supplied and of the concatenated swath whenever none
\* is; it is upsampled by EXPLODE_FACTOR when explode is on and holds the
\* values as they are when explode is off.  This holds of the call made, and
\* of _gobble's body for each value of filter and explode, on every swath.
C22_WriterGetsFilterResult ==
    gr # <<>> =>
        /\ gr[1].array.values = FilterResult(ga.filter, ga.swath)
        /\ gr[1].array.factor = IF ga.explode THEN EXPLODE_FACTOR ELSE 1
        /\ \A filter \in Filters, do_explode \in BOOLEAN :
              LET r == gobble_swath(ga.name, ga.swath, do_explode, filter)
              IN  /\ r.array.values = FilterResult(filter, ga.swath)
                  /\ r.array.factor = IF do_explode THEN EXPLODE_FACTOR ELSE 1

\* a swath that crosses the date line has gone to the writer as it was
\* concatenated, and the filter would have changed it
C22_Witness ==
    /\ gr # <<>>
    /\ ga.filter = "None" /\ ~ga.explode
    /\ ga.swath[1] = <<170, -170>>
    /\ gr[1].array.values = ga.swath
    /\ gr[1].array.factor = 1
    /\ gobble_swath(ga.name, ga.swath, FALSE, "make_longitude_monotonic").array.values[1]
          = <<170, 190>>

-----------------------------------------------------------------------------
(* Claims about parse_color_table_file *)

\* the table of the greyscale file of 256 lines: entry i is i, i, i, i, 255
GreyTable == [k \in 1..256 |-> <<k - 1, k - 1, k - 1, k - 1, 255>>]

\* C19: the two-line file 0,0,0,0,255 / 255,255,255,255,255 and the file of
\* 256 lines in which line i is i,i,i,i,255 give the same table, the indices
\* left out being interpolated linearly.
C19_TwoLinesGiveGreyscale ==
    (ct_result = "returned" /\ ct_file \in {TwoLineFile, GreyscaleFile}) => ct = GreyTable

\* the full file gives the table the claim compares with
C19_FullFileGivesGreyscale ==
    (ct_result = "returned" /\ ct_file = GreyscaleFile) => ct = GreyTable


\* the data lines of a file, in order
DataLines(file) == SelectSeq(file, LAMBDA line : line.kind = "data")

\* at least one data line, every data line of five integers, the indices in
\* 0..255 and strictly increasing
WellFormed(file) ==
    LET d == DataLines(file)
    IN  /\ Len(d) >= 1
        /\ \A k \in 1..Len(d) : Len(d[k].parts) = 5 /\ d[k].parts[1] \in 0..255
        /\ \A k \in 1..(Len(d) - 1) : d[k].parts[1] < d[k + 1].parts[1]

\* 256 entries; the entry of each listed index has the RGBA of its line, the
\* entries before the first listed index the RGBA of the first line, and
\* the entries after the last listed index the RGBA of the last line
C23_Colours ==
    LET d == DataLines(ct_file)
    IN  /\ Len(ct) = 256
        /\ \A k \in 1..Len(d) : Tail(ct[d[k].parts[1] + 1]) = Tail(d[k].parts)
        /\ \A i \in 0..(d[1].parts[1] - 1) : Tail(ct[i + 1]) = Tail(d[1].parts)
        /\ \A i \in (Last(d).parts[1] + 1)..255 : Tail(ct[i + 1]) = Tail(Last(d).parts)

\* the index fields are 0, 1, ..., 255 in order, and the colour table has a
\* colour for every value
C23_Indices ==
    /\ Len(ct) = 256
    /\ \A i \in 0..255 : ct[i + 1][1] = i
    /\ DOMAIN color_table[1] = 0..255

\* C23: for every file with at least one data line and strictly increasing
\* indices within 0..255, parse_color_table_file returns 256 entries whose
\* index fields are 0..255 in order, with the RGBA of each listed line at its
\* index, of the first line before the first listed index and of the last
\* line after the last; create_colortable sets a colour for every value.
C23_FullTable ==
    (color_table # <<>> /\ WellFormed(ct_file)) => (C23_Colours /\ C23_Indices)

\* what holds of C23 in the code: the colours always, the index fields and
\* the table when the last listed index is 255
C23_ColoursAndIndicesTo255 ==
    (color_table # <<>> /\ WellFormed(ct_file)) =>
        /\ C23_Colours
        /\ Last(DataLines(ct_file)).parts[1] = 255 => C23_Indices
        /\ DOMAIN color_table[1] = 0..Last(DataLines(ct_file)).parts[1]

====
